---- MODULE Spec2Model ----
(***************************************************************************)
(* A model of fpng (src/src/fpng.cpp): the PNG writer                      *)
(* fpng_encode_image_to_memory and the reader fpng_get_info /              *)
(* fpng_decode_memory.  Bytes are the integers 0..255, a buffer is a       *)
(* sequence of bytes, and a buffer offset is the C offset (0-based).       *)
(* 32-bit and 64-bit quantities that can exceed the range of the integers  *)
(* the model checker computes with are sequences of bytes, least           *)
(* significant first, and are added, multiplied and compared digit by      *)
(* digit.                                                                  *)
(***************************************************************************)
EXTENDS Integers, Sequences, FiniteSets, TLC

\* ---------------------------------------------------------------------
\* Buffers
\* ---------------------------------------------------------------------

At(s, i) == s[i + 1]

Slice(s, ofs, n) == SubSeq(s, ofs + 1, ofs + n)

Zeros(n) == [i \in 1..n |-> 0]

Min(a, b) == IF a < b THEN a ELSE b

Max(a, b) == IF a > b THEN a ELSE b

Pow2(n) == 2 ^ n

\* Bitwise operations on naturals below 2^31, bit by bit.
RECURSIVE BitXor(_, _)
BitXor(a, b) ==
    IF a = 0 THEN b
    ELSE IF b = 0 THEN a
    ELSE ((a + b) % 2) + 2 * BitXor(a \div 2, b \div 2)

RECURSIVE BitAnd(_, _)
BitAnd(a, b) ==
    IF a = 0 \/ b = 0 THEN 0
    ELSE ((a % 2) * (b % 2)) + 2 * BitAnd(a \div 2, b \div 2)

RECURSIVE BitOr(_, _)
BitOr(a, b) ==
    IF a = 0 THEN b
    ELSE IF b = 0 THEN a
    ELSE (IF (a % 2) + (b % 2) > 0 THEN 1 ELSE 0) + 2 * BitOr(a \div 2, b \div 2)

\* ---------------------------------------------------------------------
\* Unsigned integers as little-endian byte strings
\* ---------------------------------------------------------------------

\* The n-byte little-endian representation of a natural below 2^31
\* (truncated to n bytes, as a C conversion to an n-byte unsigned type).
RECURSIVE ToLE(_, _)
ToLE(v, n) == IF n = 0 THEN <<>> ELSE <<v % 256>> \o ToLE(v \div 256, n - 1)

U32(v) == ToLE(v, 4)

U64(v) == ToLE(v, 8)

\* The value of a little-endian byte string; only used where it is below 2^31.
RECURSIVE FromLE(_)
FromLE(s) == IF s = <<>> THEN 0 ELSE Head(s) + 256 * FromLE(Tail(s))

\* TRUE when the byte string denotes a value below 2^31.
FitsInt(s) == \A i \in 1..Len(s) : (i > 4 => s[i] = 0) /\ (i = 4 => s[i] < 128)

Reverse(s) == [i \in 1..Len(s) |-> s[Len(s) + 1 - i]]

\* Zero-extend or truncate to n bytes.
Resize(s, n) == [i \in 1..n |-> IF i <= Len(s) THEN s[i] ELSE 0]

\* a + b modulo 2^(8 * Len(a)); both strings have the same length.
RECURSIVE AddCarry(_, _, _)
AddCarry(a, b, c) ==
    IF a = <<>> THEN <<>>
    ELSE LET t == Head(a) + Head(b) + c
         IN <<t % 256>> \o AddCarry(Tail(a), Tail(b), t \div 256)

UAdd(a, b) == AddCarry(a, b, 0)

\* a - b modulo 2^(8 * Len(a)).
RECURSIVE SubBorrow(_, _, _)
SubBorrow(a, b, c) ==
    IF a = <<>> THEN <<>>
    ELSE LET t == Head(a) - Head(b) - c
         IN <<(t + 256) % 256>> \o SubBorrow(Tail(a), Tail(b), IF t < 0 THEN 1 ELSE 0)

USub(a, b) == SubBorrow(a, b, 0)

\* a * m modulo 2^(8 * Len(a)), m a natural below 2^23.
RECURSIVE MulSmallCarry(_, _, _)
MulSmallCarry(a, m, c) ==
    IF a = <<>> THEN <<>>
    ELSE LET t == Head(a) * m + c
         IN <<t % 256>> \o MulSmallCarry(Tail(a), m, t \div 256)

UMulSmall(a, m) == MulSmallCarry(a, m, 0)

\* a * b modulo 2^(8 * Len(a)): the sum of a * b[i] shifted by i - 1 bytes.
RECURSIVE MulFrom(_, _, _)
MulFrom(a, b, i) ==
    IF i > Len(b) THEN Zeros(Len(a))
    ELSE UAdd(Resize(Zeros(i - 1) \o UMulSmall(a, b[i]), Len(a)), MulFrom(a, b, i + 1))

UMul(a, b) == MulFrom(a, b, 1)

\* Unsigned comparison, most significant byte first.
RECURSIVE LtFrom(_, _, _)
LtFrom(a, b, i) ==
    IF i = 0 THEN FALSE
    ELSE IF a[i] # b[i] THEN a[i] < b[i]
    ELSE LtFrom(a, b, i - 1)

ULt(a, b) == LtFrom(a, b, Len(a))

ULe(a, b) == ~ULt(b, a)

\* a divided by a natural d below 2^23: long division from the top byte.
RECURSIVE DivFrom(_, _, _, _)
DivFrom(a, d, i, rem) ==
    IF i = 0 THEN <<>>
    ELSE LET t == rem * 256 + a[i]
         IN DivFrom(a, d, i - 1, t % d) \o <<t \div d>>

UDivSmall(a, d) == DivFrom(a, d, Len(a), 0)

\* a & ~7
UAndNot7(a) == [i \in 1..Len(a) |-> IF i = 1 THEN a[1] - (a[1] % 8) ELSE a[i]]

UIsZero(a) == \A i \in 1..Len(a) : a[i] = 0

\* ---------------------------------------------------------------------
\* CRC-32 and Adler-32
\* ---------------------------------------------------------------------

\* One step of the reflected CRC-32 shift register (polynomial
\* 0xEDB88320) held as four bytes, least significant first.
CrcShift(c) ==
    LET s == << (c[1] \div 2) + 128 * (c[2] % 2),
                (c[2] \div 2) + 128 * (c[3] % 2),
                (c[3] \div 2) + 128 * (c[4] % 2),
                 c[4] \div 2 >>
    IN IF c[1] % 2 = 1
       THEN << BitXor(s[1], 32), BitXor(s[2], 131), BitXor(s[3], 184), BitXor(s[4], 237) >>
       ELSE s

RECURSIVE CrcShiftN(_, _)
CrcShiftN(c, n) == IF n = 0 THEN c ELSE CrcShiftN(CrcShift(c), n - 1)

CrcTable == [n \in 0..255 |-> CrcShiftN(<<n, 0, 0, 0>>, 8)]

XorTable == [a \in 0..255 |-> [b \in 0..255 |-> BitXor(a, b)]]

Xor8(a, b) == XorTable[a][b]

CrcByte(c, b) ==
    LET t == CrcTable[Xor8(c[1], b)]
    IN << Xor8(t[1], c[2]), Xor8(t[2], c[3]), Xor8(t[3], c[4]), t[4] >>

\* The register after the n bytes buf[ofs .. ofs + n - 1].  The loop is
\* split in halves, the first half being computed (m = m) before the
\* second starts, which keeps the evaluation depth logarithmic.
RECURSIVE CrcRun(_, _, _, _)
CrcRun(c, buf, ofs, n) ==
    IF n = 0 THEN c
    ELSE IF n = 1 THEN CrcByte(c, At(buf, ofs))
    ELSE LET h == n \div 2
             m == CrcRun(c, buf, ofs, h)
         IN IF m = m THEN CrcRun(m, buf, ofs + h, n - h) ELSE m

UNot(c) == [i \in 1..Len(c) |-> 255 - c[i]]

\* fpng_crc32(prev_crc32, pData, size) over buf[ofs .. ofs + n - 1]; the
\* result is the four bytes of the CRC, least significant first.
fpng_crc32(prev, buf, ofs, n) == UNot(CrcRun(UNot(prev), buf, ofs, n))

FPNG_CRC32_INIT == 0

FPNG_ADLER32_INIT == 1

\* for (i = 0; i < block_len; i++) { s1 += *ptr++; s2 += s1; } without the
\* reduction, by halving.
RECURSIVE AdlerRun(_, _, _, _)
AdlerRun(s, buf, ofs, n) ==
    IF n = 0 THEN s
    ELSE IF n = 1 THEN LET s1 == s[1] + At(buf, ofs) IN << s1, s[2] + s1 >>
    ELSE LET h == n \div 2
             m == AdlerRun(s, buf, ofs, h)
         IN IF m = m THEN AdlerRun(m, buf, ofs + h, n - h) ELSE m

AdlerMaxBlock == 5552

RECURSIVE AdlerBlocks(_, _, _, _, _)
AdlerBlocks(s, buf, ofs, n, block_len) ==
    IF n = 0 THEN s
    ELSE LET t == AdlerRun(s, buf, ofs, block_len)
             u == << t[1] % 65521, t[2] % 65521 >>
         IN IF u = u
            THEN AdlerBlocks(u, buf, ofs + block_len, n - block_len, AdlerMaxBlock)
            ELSE u

\* fpng_adler32(adler, ptr, buf_len) over buf[ofs .. ofs + n - 1]: the pair
\* <<s1, s2>>; the 32-bit result is (s2 << 16) + s1.
fpng_adler32(adler, buf, ofs, n) == AdlerBlocks(adler, buf, ofs, n, n % AdlerMaxBlock)

\* The 32-bit value (s2 << 16) + s1, most significant byte first.
AdlerBE(a) == << a[2] \div 256, a[2] % 256, a[1] \div 256, a[1] % 256 >>

\* ---------------------------------------------------------------------
\* Tables of the Deflate writer
\* ---------------------------------------------------------------------

\* g_defl_len_sym[256]: the length symbol of match length 3 + index.
g_defl_len_sym ==
    << 257, 258, 259, 260, 261, 262, 263, 264, 265, 265, 266, 266, 267, 267, 268,
       268, 269, 269, 269, 269, 270, 270, 270, 270, 271, 271, 271, 271, 272, 272,
       272, 272, 273, 273, 273, 273, 273, 273, 273, 273, 274, 274, 274, 274, 274,
       274, 274, 274, 275, 275, 275, 275, 275, 275, 275, 275, 276, 276, 276, 276,
       276, 276, 276, 276, 277, 277, 277, 277, 277, 277, 277, 277, 277, 277, 277,
       277, 277, 277, 277, 277, 278, 278, 278, 278, 278, 278, 278, 278, 278, 278,
       278, 278, 278, 278, 278, 278, 279, 279, 279, 279, 279, 279, 279, 279, 279,
       279, 279, 279, 279, 279, 279, 279, 280, 280, 280, 280, 280, 280, 280, 280,
       280, 280, 280, 280, 280, 280, 280, 280, 281, 281, 281, 281, 281, 281, 281,
       281, 281, 281, 281, 281, 281, 281, 281, 281, 281, 281, 281, 281, 281, 281,
       281, 281, 281, 281, 281, 281, 281, 281, 281, 281, 282, 282, 282, 282, 282,
       282, 282, 282, 282, 282, 282, 282, 282, 282, 282, 282, 282, 282, 282, 282,
       282, 282, 282, 282, 282, 282, 282, 282, 282, 282, 282, 282, 283, 283, 283,
       283, 283, 283, 283, 283, 283, 283, 283, 283, 283, 283, 283, 283, 283, 283,
       283, 283, 283, 283, 283, 283, 283, 283, 283, 283, 283, 283, 283, 283, 284,
       284, 284, 284, 284, 284, 284, 284, 284, 284, 284, 284, 284, 284, 284, 284,
       284, 284, 284, 284, 284, 284, 284, 284, 284, 284, 284, 284, 284, 284, 284,
       285 >>

\* g_defl_len_extra[256]: the number of extra bits of match length 3 + index.
g_defl_len_extra ==
    << 0, 0, 0, 0, 0, 0, 0, 0, 1, 1, 1, 1, 1, 1, 1, 1, 2, 2, 2, 2, 2, 2, 2, 2, 2,
       2, 2, 2, 2, 2, 2, 2, 3, 3, 3, 3, 3, 3, 3, 3, 3, 3, 3, 3, 3, 3, 3, 3, 3, 3,
       3, 3, 3, 3, 3, 3, 3, 3, 3, 3, 3, 3, 3, 3, 4, 4, 4, 4, 4, 4, 4, 4, 4, 4, 4,
       4, 4, 4, 4, 4, 4, 4, 4, 4, 4, 4, 4, 4, 4, 4, 4, 4, 4, 4, 4, 4, 4, 4, 4, 4,
       4, 4, 4, 4, 4, 4, 4, 4, 4, 4, 4, 4, 4, 4, 4, 4, 4, 4, 4, 4, 4, 4, 4, 4, 4,
       4, 4, 4, 5, 5, 5, 5, 5, 5, 5, 5, 5, 5, 5, 5, 5, 5, 5, 5, 5, 5, 5, 5, 5, 5,
       5, 5, 5, 5, 5, 5, 5, 5, 5, 5, 5, 5, 5, 5, 5, 5, 5, 5, 5, 5, 5, 5, 5, 5, 5,
       5, 5, 5, 5, 5, 5, 5, 5, 5, 5, 5, 5, 5, 5, 5, 5, 5, 5, 5, 5, 5, 5, 5, 5, 5,
       5, 5, 5, 5, 5, 5, 5, 5, 5, 5, 5, 5, 5, 5, 5, 5, 5, 5, 5, 5, 5, 5, 5, 5, 5,
       5, 5, 5, 5, 5, 5, 5, 5, 5, 5, 5, 5, 5, 5, 5, 5, 5, 5, 5, 5, 5, 5, 5, 5, 5,
       5, 5, 5, 5, 5, 0 >>

\* g_defl_small_dist_sym[512]: the distance symbol of distance 1 + index.
g_defl_small_dist_sym ==
    << 0, 1, 2, 3, 4, 4, 5, 5, 6, 6, 6, 6, 7, 7, 7, 7, 8, 8, 8, 8, 8, 8, 8, 8, 9,
       9, 9, 9, 9, 9, 9, 9, 10, 10, 10, 10, 10, 10, 10, 10, 10, 10, 10, 10, 10,
       10, 10, 10, 11, 11, 11, 11, 11, 11, 11, 11, 11, 11, 11, 11, 11, 11, 11,
       11, 12, 12, 12, 12, 12, 12, 12, 12, 12, 12, 12, 12, 12, 12, 12, 12, 12,
       12, 12, 12, 12, 12, 12, 12, 12, 12, 12, 12, 12, 12, 12, 12, 13, 13, 13,
       13, 13, 13, 13, 13, 13, 13, 13, 13, 13, 13, 13, 13, 13, 13, 13, 13, 13,
       13, 13, 13, 13, 13, 13, 13, 13, 13, 13, 13, 14, 14, 14, 14, 14, 14, 14,
       14, 14, 14, 14, 14, 14, 14, 14, 14, 14, 14, 14, 14, 14, 14, 14, 14, 14,
       14, 14, 14, 14, 14, 14, 14, 14, 14, 14, 14, 14, 14, 14, 14, 14, 14, 14,
       14, 14, 14, 14, 14, 14, 14, 14, 14, 14, 14, 14, 14, 14, 14, 14, 14, 14,
       14, 14, 14, 15, 15, 15, 15, 15, 15, 15, 15, 15, 15, 15, 15, 15, 15, 15,
       15, 15, 15, 15, 15, 15, 15, 15, 15, 15, 15, 15, 15, 15, 15, 15, 15, 15,
       15, 15, 15, 15, 15, 15, 15, 15, 15, 15, 15, 15, 15, 15, 15, 15, 15, 15,
       15, 15, 15, 15, 15, 15, 15, 15, 15, 15, 15, 15, 15, 16, 16, 16, 16, 16,
       16, 16, 16, 16, 16, 16, 16, 16, 16, 16, 16, 16, 16, 16, 16, 16, 16, 16,
       16, 16, 16, 16, 16, 16, 16, 16, 16, 16, 16, 16, 16, 16, 16, 16, 16, 16,
       16, 16, 16, 16, 16, 16, 16, 16, 16, 16, 16, 16, 16, 16, 16, 16, 16, 16,
       16, 16, 16, 16, 16, 16, 16, 16, 16, 16, 16, 16, 16, 16, 16, 16, 16, 16,
       16, 16, 16, 16, 16, 16, 16, 16, 16, 16, 16, 16, 16, 16, 16, 16, 16, 16,
       16, 16, 16, 16, 16, 16, 16, 16, 16, 16, 16, 16, 16, 16, 16, 16, 16, 16,
       16, 16, 16, 16, 16, 16, 16, 16, 16, 16, 16, 16, 16, 16, 16, 17, 17, 17,
       17, 17, 17, 17, 17, 17, 17, 17, 17, 17, 17, 17, 17, 17, 17, 17, 17, 17,
       17, 17, 17, 17, 17, 17, 17, 17, 17, 17, 17, 17, 17, 17, 17, 17, 17, 17,
       17, 17, 17, 17, 17, 17, 17, 17, 17, 17, 17, 17, 17, 17, 17, 17, 17, 17,
       17, 17, 17, 17, 17, 17, 17, 17, 17, 17, 17, 17, 17, 17, 17, 17, 17, 17,
       17, 17, 17, 17, 17, 17, 17, 17, 17, 17, 17, 17, 17, 17, 17, 17, 17, 17,
       17, 17, 17, 17, 17, 17, 17, 17, 17, 17, 17, 17, 17, 17, 17, 17, 17, 17,
       17, 17, 17, 17, 17, 17, 17, 17, 17, 17, 17, 17, 17, 17, 17, 17, 17 >>

\* g_bitmasks[17]
g_bitmasks ==
    << 0, 1, 3, 7, 15, 31, 63, 127, 255, 511, 1023, 2047, 4095, 8191, 16383,
       32767, 65535 >>

\* g_dyn_huff_3[]: the zlib header and the block header of the fixed 3-channel table.
g_dyn_huff_3 ==
    << 120, 1, 229, 194, 3, 176, 37, 75, 148, 5, 208, 189, 79, 102, 86, 213, 197,
       99, 187, 231, 143, 109, 219, 182, 109, 219, 182, 109, 219, 182, 109, 219,
       198, 31, 207, 159, 118, 63, 94, 84, 85, 102, 158, 61, 21, 241, 34, 58, 38,
       198, 102, 196 >>

\* g_dyn_huff_3_codes[288]: << m_code_size, m_code >> of each symbol.
g_dyn_huff_3_codes ==
    << <<3, 0>>, <<3, 4>>, <<4, 6>>, <<5, 1>>, <<5, 17>>, <<5, 9>>, <<6, 13>>,
       <<6, 45>>, <<6, 29>>, <<7, 51>>, <<7, 115>>, <<7, 11>>, <<7, 75>>, <<8,
       59>>, <<8, 187>>, <<8, 123>>, <<8, 251>>, <<8, 7>>, <<8, 135>>, <<9,
       151>>, <<9, 407>>, <<9, 87>>, <<9, 343>>, <<9, 215>>, <<9, 471>>, <<9,
       55>>, <<9, 311>>, <<12, 591>>, <<10, 399>>, <<12, 2639>>, <<12, 1615>>,
       <<12, 3663>>, <<12, 335>>, <<12, 2383>>, <<12, 1359>>, <<12, 3407>>, <<12,
       847>>, <<12, 2895>>, <<12, 1871>>, <<12, 3919>>, <<12, 207>>, <<12,
       2255>>, <<12, 1231>>, <<12, 3279>>, <<12, 719>>, <<12, 2767>>, <<12,
       1743>>, <<12, 3791>>, <<12, 463>>, <<12, 2511>>, <<12, 1487>>, <<12,
       3535>>, <<12, 975>>, <<12, 3023>>, <<12, 1999>>, <<12, 4047>>, <<12, 47>>,
       <<12, 2095>>, <<12, 1071>>, <<12, 3119>>, <<12, 559>>, <<12, 2607>>, <<12,
       1583>>, <<12, 3631>>, <<12, 303>>, <<12, 2351>>, <<12, 1327>>, <<12,
       3375>>, <<12, 815>>, <<12, 2863>>, <<12, 1839>>, <<12, 3887>>, <<12,
       175>>, <<12, 2223>>, <<12, 1199>>, <<12, 3247>>, <<12, 687>>, <<12,
       2735>>, <<12, 1711>>, <<12, 3759>>, <<12, 431>>, <<12, 2479>>, <<12,
       1455>>, <<12, 3503>>, <<12, 943>>, <<12, 2991>>, <<12, 1967>>, <<12,
       4015>>, <<12, 111>>, <<12, 2159>>, <<12, 1135>>, <<12, 3183>>, <<12,
       623>>, <<12, 2671>>, <<12, 1647>>, <<12, 3695>>, <<12, 367>>, <<12,
       2415>>, <<12, 1391>>, <<12, 3439>>, <<12, 879>>, <<12, 2927>>, <<12,
       1903>>, <<12, 3951>>, <<12, 239>>, <<12, 2287>>, <<12, 1263>>, <<12,
       3311>>, <<12, 751>>, <<12, 2799>>, <<12, 1775>>, <<12, 3823>>, <<12,
       495>>, <<12, 2543>>, <<12, 1519>>, <<12, 3567>>, <<12, 1007>>, <<12,
       3055>>, <<12, 2031>>, <<12, 4079>>, <<12, 31>>, <<12, 2079>>, <<12,
       1055>>, <<12, 3103>>, <<12, 543>>, <<12, 2591>>, <<12, 1567>>, <<12,
       3615>>, <<12, 287>>, <<12, 2335>>, <<12, 1311>>, <<12, 3359>>, <<12,
       799>>, <<12, 2847>>, <<12, 1823>>, <<12, 3871>>, <<12, 159>>, <<12,
       2207>>, <<12, 1183>>, <<12, 3231>>, <<12, 671>>, <<12, 2719>>, <<12,
       1695>>, <<12, 3743>>, <<12, 415>>, <<12, 2463>>, <<12, 1439>>, <<12,
       3487>>, <<12, 927>>, <<12, 2975>>, <<12, 1951>>, <<12, 3999>>, <<12, 95>>,
       <<12, 2143>>, <<12, 1119>>, <<12, 3167>>, <<12, 607>>, <<12, 2655>>, <<12,
       1631>>, <<12, 3679>>, <<12, 351>>, <<12, 2399>>, <<12, 1375>>, <<12,
       3423>>, <<12, 863>>, <<12, 2911>>, <<12, 1887>>, <<12, 3935>>, <<12,
       223>>, <<12, 2271>>, <<12, 1247>>, <<12, 3295>>, <<12, 735>>, <<12,
       2783>>, <<12, 1759>>, <<12, 3807>>, <<12, 479>>, <<12, 2527>>, <<12,
       1503>>, <<12, 3551>>, <<12, 991>>, <<12, 3039>>, <<12, 2015>>, <<12,
       4063>>, <<12, 63>>, <<12, 2111>>, <<12, 1087>>, <<12, 3135>>, <<12, 575>>,
       <<12, 2623>>, <<12, 1599>>, <<12, 3647>>, <<12, 319>>, <<12, 2367>>, <<12,
       1343>>, <<12, 3391>>, <<12, 831>>, <<12, 2879>>, <<12, 1855>>, <<12,
       3903>>, <<12, 191>>, <<12, 2239>>, <<12, 1215>>, <<12, 3263>>, <<12,
       703>>, <<12, 2751>>, <<12, 1727>>, <<12, 3775>>, <<12, 447>>, <<12,
       2495>>, <<12, 1471>>, <<12, 3519>>, <<12, 959>>, <<12, 3007>>, <<12,
       1983>>, <<12, 4031>>, <<12, 127>>, <<12, 2175>>, <<12, 1151>>, <<10,
       911>>, <<12, 3199>>, <<12, 639>>, <<12, 2687>>, <<12, 1663>>, <<12,
       3711>>, <<12, 383>>, <<12, 2431>>, <<12, 1407>>, <<10, 79>>, <<12, 3455>>,
       <<9, 183>>, <<9, 439>>, <<9, 119>>, <<9, 375>>, <<9, 247>>, <<9, 503>>,
       <<9, 15>>, <<9, 271>>, <<8, 71>>, <<8, 199>>, <<8, 39>>, <<8, 167>>, <<8,
       103>>, <<8, 231>>, <<7, 43>>, <<7, 107>>, <<7, 27>>, <<7, 91>>, <<6, 61>>,
       <<6, 3>>, <<6, 35>>, <<5, 25>>, <<5, 5>>, <<5, 21>>, <<4, 14>>, <<3, 2>>,
       <<12, 895>>, <<6, 19>>, <<0, 0>>, <<0, 0>>, <<8, 23>>, <<0, 0>>, <<0, 0>>,
       <<9, 143>>, <<0, 0>>, <<12, 2943>>, <<0, 0>>, <<12, 1919>>, <<12, 3967>>,
       <<12, 255>>, <<12, 2303>>, <<12, 1279>>, <<12, 3327>>, <<12, 767>>, <<12,
       2815>>, <<12, 1791>>, <<12, 3839>>, <<12, 511>>, <<12, 2559>>, <<12,
       1535>>, <<12, 3583>>, <<12, 1023>>, <<12, 3071>>, <<12, 2047>>, <<12,
       4095>>, <<0, 0>>, <<0, 0>>, <<0, 0>> >>

\* g_dyn_huff_4[]: the zlib header and the block header of the fixed 4-channel table.
g_dyn_huff_4 ==
    << 120, 1, 229, 195, 83, 144, 37, 219, 182, 0, 208, 49, 87, 230, 70, 177,
       171, 121, 204, 171, 103, 219, 182, 109, 219, 182, 109, 219, 182, 109, 219,
       214, 197, 177, 154, 213, 197, 141, 204, 53, 95, 228, 71, 69, 116, 156, 56,
       207, 126, 251, 99 >>

\* g_dyn_huff_4_codes[288]: << m_code_size, m_code >> of each symbol.
g_dyn_huff_4_codes ==
    << <<1, 0>>, <<4, 1>>, <<5, 5>>, <<6, 13>>, <<6, 45>>, <<7, 35>>, <<7, 99>>,
       <<7, 19>>, <<7, 83>>, <<8, 107>>, <<8, 235>>, <<8, 27>>, <<8, 155>>, <<8,
       91>>, <<8, 219>>, <<9, 167>>, <<8, 59>>, <<9, 423>>, <<9, 103>>, <<9,
       359>>, <<9, 231>>, <<9, 487>>, <<9, 23>>, <<10, 311>>, <<10, 823>>, <<10,
       183>>, <<10, 695>>, <<10, 439>>, <<10, 951>>, <<10, 119>>, <<10, 631>>,
       <<10, 375>>, <<10, 887>>, <<10, 247>>, <<10, 759>>, <<11, 847>>, <<11,
       1871>>, <<11, 207>>, <<11, 1231>>, <<11, 719>>, <<12, 1999>>, <<12,
       4047>>, <<12, 47>>, <<12, 2095>>, <<12, 1071>>, <<12, 3119>>, <<12, 559>>,
       <<12, 2607>>, <<12, 1583>>, <<12, 3631>>, <<12, 303>>, <<12, 2351>>, <<12,
       1327>>, <<12, 3375>>, <<12, 815>>, <<12, 2863>>, <<12, 1839>>, <<12,
       3887>>, <<12, 175>>, <<12, 2223>>, <<12, 1199>>, <<12, 3247>>, <<12,
       687>>, <<12, 2735>>, <<12, 1711>>, <<12, 3759>>, <<12, 431>>, <<12,
       2479>>, <<12, 1455>>, <<12, 3503>>, <<12, 943>>, <<12, 2991>>, <<12,
       1967>>, <<12, 4015>>, <<12, 111>>, <<12, 2159>>, <<12, 1135>>, <<12,
       3183>>, <<12, 623>>, <<12, 2671>>, <<12, 1647>>, <<12, 3695>>, <<12,
       367>>, <<12, 2415>>, <<12, 1391>>, <<12, 3439>>, <<12, 879>>, <<12,
       2927>>, <<12, 1903>>, <<12, 3951>>, <<12, 239>>, <<12, 2287>>, <<12,
       1263>>, <<12, 3311>>, <<12, 751>>, <<12, 2799>>, <<12, 1775>>, <<12,
       3823>>, <<12, 495>>, <<12, 2543>>, <<12, 1519>>, <<12, 3567>>, <<12,
       1007>>, <<12, 3055>>, <<12, 2031>>, <<12, 4079>>, <<12, 31>>, <<12,
       2079>>, <<12, 1055>>, <<12, 3103>>, <<12, 543>>, <<12, 2591>>, <<12,
       1567>>, <<12, 3615>>, <<12, 287>>, <<12, 2335>>, <<12, 1311>>, <<12,
       3359>>, <<12, 799>>, <<12, 2847>>, <<12, 1823>>, <<12, 3871>>, <<12,
       159>>, <<12, 2207>>, <<12, 1183>>, <<12, 3231>>, <<12, 671>>, <<12,
       2719>>, <<12, 1695>>, <<12, 3743>>, <<12, 415>>, <<12, 2463>>, <<12,
       1439>>, <<12, 3487>>, <<12, 927>>, <<12, 2975>>, <<12, 1951>>, <<12,
       3999>>, <<12, 95>>, <<12, 2143>>, <<12, 1119>>, <<12, 3167>>, <<12, 607>>,
       <<12, 2655>>, <<12, 1631>>, <<12, 3679>>, <<12, 351>>, <<12, 2399>>, <<12,
       1375>>, <<12, 3423>>, <<12, 863>>, <<12, 2911>>, <<12, 1887>>, <<12,
       3935>>, <<12, 223>>, <<12, 2271>>, <<12, 1247>>, <<12, 3295>>, <<12,
       735>>, <<12, 2783>>, <<12, 1759>>, <<12, 3807>>, <<12, 479>>, <<12,
       2527>>, <<12, 1503>>, <<12, 3551>>, <<12, 991>>, <<12, 3039>>, <<12,
       2015>>, <<12, 4063>>, <<12, 63>>, <<12, 2111>>, <<12, 1087>>, <<12,
       3135>>, <<12, 575>>, <<12, 2623>>, <<12, 1599>>, <<12, 3647>>, <<12,
       319>>, <<12, 2367>>, <<12, 1343>>, <<12, 3391>>, <<12, 831>>, <<12,
       2879>>, <<12, 1855>>, <<12, 3903>>, <<12, 191>>, <<12, 2239>>, <<12,
       1215>>, <<12, 3263>>, <<12, 703>>, <<12, 2751>>, <<12, 1727>>, <<12,
       3775>>, <<12, 447>>, <<12, 2495>>, <<12, 1471>>, <<12, 3519>>, <<12,
       959>>, <<12, 3007>>, <<12, 1983>>, <<12, 4031>>, <<12, 127>>, <<12,
       2175>>, <<12, 1151>>, <<12, 3199>>, <<12, 639>>, <<12, 2687>>, <<12,
       1663>>, <<12, 3711>>, <<12, 383>>, <<12, 2431>>, <<12, 1407>>, <<12,
       3455>>, <<12, 895>>, <<12, 2943>>, <<12, 1919>>, <<12, 3967>>, <<12,
       255>>, <<11, 1743>>, <<11, 463>>, <<11, 1487>>, <<11, 975>>, <<10, 503>>,
       <<10, 1015>>, <<10, 15>>, <<10, 527>>, <<10, 271>>, <<10, 783>>, <<10,
       143>>, <<10, 655>>, <<10, 399>>, <<10, 911>>, <<10, 79>>, <<9, 279>>, <<9,
       151>>, <<9, 407>>, <<9, 87>>, <<9, 343>>, <<9, 215>>, <<8, 187>>, <<9,
       471>>, <<8, 123>>, <<8, 251>>, <<8, 7>>, <<8, 135>>, <<8, 71>>, <<8,
       199>>, <<7, 51>>, <<7, 115>>, <<7, 11>>, <<7, 75>>, <<6, 29>>, <<6, 61>>,
       <<5, 21>>, <<4, 9>>, <<12, 2303>>, <<0, 0>>, <<6, 3>>, <<0, 0>>, <<0, 0>>,
       <<0, 0>>, <<8, 39>>, <<0, 0>>, <<0, 0>>, <<9, 55>>, <<0, 0>>, <<10, 591>>,
       <<0, 0>>, <<10, 335>>, <<12, 1279>>, <<12, 3327>>, <<12, 767>>, <<12,
       2815>>, <<12, 1791>>, <<12, 3839>>, <<12, 511>>, <<12, 2559>>, <<12,
       1535>>, <<12, 3583>>, <<12, 1023>>, <<12, 3071>>, <<12, 2047>>, <<12,
       4095>>, <<7, 43>>, <<0, 0>>, <<0, 0>>, <<0, 0>> >>

\* g_defl_packed_code_size_syms_swizzle[]
g_defl_packed_code_size_syms_swizzle ==
    << 16, 17, 18, 0, 8, 7, 9, 6, 10, 5, 11, 4, 12, 3, 13, 2, 14, 1, 15 >>

DYN_HUFF_3_BITBUF == 2

DYN_HUFF_3_BITBUF_SIZE == 3

DYN_HUFF_4_BITBUF == 0

DYN_HUFF_4_BITBUF_SIZE == 2

DEFL_MAX_HUFF_SYMBOLS_0 == 288

DEFL_MAX_HUFF_SYMBOLS_1 == 32

DEFL_MAX_HUFF_SYMBOLS_2 == 19

DEFL_MAX_SUPPORTED_HUFF_CODESIZE == 32

\* ---------------------------------------------------------------------
\* Loops
\* ---------------------------------------------------------------------

UINT16_MAX == 65535

\* The element of a one-element set: The({ e(x) : x \in { v } }) is e(v)
\* with v worked out once, before e.
The(S) == CHOOSE x \in S : TRUE

\* Up to 2^k turns of a loop with body Step, left when Done holds; the
\* first half of the turns is worked out before the second half starts.
RECURSIVE Turns(_, _, _, _)
Turns(Step(_), Done(_), st, k) ==
    IF Done(st) THEN st
    ELSE IF k <= 0 THEN Step(st)
    ELSE The({ Turns(Step, Done, m, k - 1) : m \in { Turns(Step, Done, st, k - 1) } })

\* A loop with body Step, left when Done holds, of up to 2^k turns: a few
\* turns first, then longer and longer stretches while the loop goes on.
Iterate(Step(_), Done(_), st, k) ==
    The({ IF Done(a) THEN a
          ELSE The({ IF Done(b) THEN b
                     ELSE The({ Turns(Step, Done, c, k) :
                                c \in { Turns(Step, Done, b, k - 3) } }) :
                     b \in { Turns(Step, Done, a, k - 6) } }) :
          a \in { Turns(Step, Done, st, k - 9) } })

\* Enough turns for every loop of the model: 2^LoopFuel.
LoopFuel == 12

\* a[i] := v for a 0-based index i.
Put(a, i, v) == [a EXCEPT ![i + 1] = v]

\* ---------------------------------------------------------------------
\* Huffman code construction
\* ---------------------------------------------------------------------

U16(v) == v % 65536

\* The symbols of a table are records [m_key, m_sym_index]; Keys and
\* WithKeys read and replace the keys of an array of them.
Keys(A) == [i \in 1..Len(A) |-> A[i].m_key]

WithKeys(A, K) == [i \in 1..Len(A) |-> [m_key |-> K[i], m_sym_index |-> A[i].m_sym_index]]

\* One pass of defl_radix_sort_syms on the byte at pass_shift of the keys:
\* the offsets of the 256 buckets from the histogram, then every symbol
\* moved, in order, to the next free place of its bucket.
RadixPass(pCur_syms, pass_shift) ==
    LET num_syms == Len(pCur_syms)
        digit(i) == (At(pCur_syms, i).m_key \div Pow2(pass_shift)) % 256
        hist == Iterate(LAMBDA s : [ i |-> s.i + 1,
                                     a |-> Put(s.a, digit(s.i), At(s.a, digit(s.i)) + 1) ],
                        LAMBDA s : ~(s.i < num_syms),
                        [ i |-> 0, a |-> Zeros(256) ], LoopFuel).a
        offsets == Iterate(LAMBDA s : [ i |-> s.i + 1, cur_ofs |-> s.cur_ofs + At(hist, s.i),
                                        a |-> Put(s.a, s.i, s.cur_ofs) ],
                           LAMBDA s : ~(s.i < 256),
                           [ i |-> 0, cur_ofs |-> 0, a |-> Zeros(256) ], LoopFuel).a
    IN Iterate(LAMBDA s : [ i |-> s.i + 1,
                            ofs |-> Put(s.ofs, digit(s.i), At(s.ofs, digit(s.i)) + 1),
                            new |-> Put(s.new, At(s.ofs, digit(s.i)), At(pCur_syms, s.i)) ],
               LAMBDA s : ~(s.i < num_syms),
               [ i |-> 0, ofs |-> offsets, new |-> pCur_syms ], LoopFuel).new

\* defl_radix_sort_syms: the symbols in ascending order of their 16-bit
\* key, symbols of equal key in their given order.  The pass on the high
\* byte is left out when the high byte of every key is zero.
defl_radix_sort_syms(pSyms0) ==
    LET num_syms == Len(pSyms0)
        high_zero == Cardinality({ i \in 1..num_syms : (pSyms0[i].m_key \div 256) % 256 = 0 })
        total_passes == IF num_syms = high_zero THEN 1 ELSE 2
        pass0 == RadixPass(pSyms0, 0)
    IN IF total_passes = 1 THEN pass0 ELSE RadixPass(pass0, 8)

\* The first loop of defl_calculate_minimum_redundancy on the keys A
\* (0-based) of n >= 2 sorted symbols.
MinRedPhase1(A0, n) ==
    LET step(s) ==
            LET A == s.A
                root == s.root
                leaf == s.leaf
                next == s.next
                take_root1 == leaf >= n \/ At(A, root) < At(A, leaf)
                A1 == IF take_root1
                      THEN Put(Put(A, next, At(A, root)), root, U16(next))
                      ELSE Put(A, next, At(A, leaf))
                root1 == IF take_root1 THEN root + 1 ELSE root
                leaf1 == IF take_root1 THEN leaf ELSE leaf + 1
                take_root2 == leaf1 >= n \/ (root1 < next /\ At(A1, root1) < At(A1, leaf1))
                A2 == IF take_root2
                      THEN Put(Put(A1, next, U16(At(A1, next) + At(A1, root1))), root1, U16(next))
                      ELSE Put(A1, next, U16(At(A1, next) + At(A1, leaf1)))
            IN [ A |-> A2,
                 root |-> IF take_root2 THEN root1 + 1 ELSE root1,
                 leaf |-> IF take_root2 THEN leaf1 ELSE leaf1 + 1,
                 next |-> next + 1 ]
    IN Iterate(step, LAMBDA s : ~(s.next < n - 1),
               [ A |-> Put(A0, 0, U16(At(A0, 0) + At(A0, 1))), root |-> 0, leaf |-> 2,
                 next |-> 1 ], LoopFuel).A

\* A[n - 2] = 0; for (next = n - 3; next >= 0; next--) A[next] = A[A[next]] + 1
MinRedPhase2(A0, n) ==
    Iterate(LAMBDA s : [ next |-> s.next - 1,
                         A |-> Put(s.A, s.next, U16(At(s.A, At(s.A, s.next)) + 1)) ],
            LAMBDA s : ~(s.next >= 0),
            [ next |-> n - 3, A |-> Put(A0, n - 2, 0) ], LoopFuel).A

\* The last loop: the depths of the leaves from the depths of the
\* internal nodes.  at is the place in the loop nest: "top" the test of
\* while (avbl > 0), "root" and "next" the two inner loops.
MinRedPhase3(A0, n) ==
    LET step(s) ==
            IF s.at = "top"
            THEN [s EXCEPT !.at = IF s.avbl > 0 THEN "root" ELSE "done"]
            ELSE IF s.at = "root"
            THEN IF s.root >= 0 /\ At(s.A, s.root) = s.dpth
                 THEN [s EXCEPT !.used = s.used + 1, !.root = s.root - 1]
                 ELSE [s EXCEPT !.at = "next"]
            ELSE IF s.avbl > s.used
                 THEN [s EXCEPT !.A = Put(s.A, s.next, U16(s.dpth)), !.next = s.next - 1,
                                !.avbl = s.avbl - 1]
                 ELSE [s EXCEPT !.avbl = 2 * s.used, !.dpth = s.dpth + 1, !.used = 0,
                                !.at = "top"]
    IN Iterate(step, LAMBDA s : s.at = "done",
               [ at |-> "top", A |-> A0, avbl |-> 1, used |-> 0, dpth |-> 0,
                 root |-> n - 2, next |-> n - 1 ], LoopFuel).A

\* defl_calculate_minimum_redundancy(A, n): the keys (frequencies, in
\* ascending order) replaced by code lengths.
defl_calculate_minimum_redundancy(A) ==
    LET n == Len(A)
    IN IF n = 0 THEN A
       ELSE IF n = 1 THEN WithKeys(A, << 1 >>)
       ELSE WithKeys(A, MinRedPhase3(MinRedPhase2(MinRedPhase1(Keys(A), n), n), n))

\* The code sizes left as the tree gives them.
NoMaxCodeSize(pNum_codes, code_list_len, max_code_size) == pNum_codes

\* defl_huffman_enforce_max_code_size on pNum_codes[0 .. 32].
defl_huffman_enforce_max_code_size(pNum_codes, code_list_len, max_code_size) ==
    IF code_list_len <= 1 THEN pNum_codes
    ELSE
    LET folded == Iterate(LAMBDA s : [ i |-> s.i + 1,
                                       a |-> Put(s.a, max_code_size,
                                                 At(s.a, max_code_size) + At(s.a, s.i)) ],
                          LAMBDA s : ~(s.i <= DEFL_MAX_SUPPORTED_HUFF_CODESIZE),
                          [ i |-> max_code_size + 1, a |-> pNum_codes ], LoopFuel).a
        total0 == Iterate(LAMBDA s : [ i |-> s.i - 1,
                                       total |-> s.total
                                           + At(folded, s.i) * Pow2(max_code_size - s.i) ],
                          LAMBDA s : ~(s.i > 0),
                          [ i |-> max_code_size, total |-> 0 ], LoopFuel).total
        \* the highest i below max_code_size with pNum_codes[i] # 0, or 0
        donor(a) == IF \E i \in 1..(max_code_size - 1) : At(a, i) # 0
                    THEN CHOOSE i \in 1..(max_code_size - 1) :
                             /\ At(a, i) # 0
                             /\ \A j \in (i + 1)..(max_code_size - 1) : At(a, j) = 0
                    ELSE 0
        step(s) ==
            LET a1 == Put(s.a, max_code_size, At(s.a, max_code_size) - 1)
                i == donor(a1)
                a2 == IF i = 0 THEN a1
                      ELSE LET a3 == Put(a1, i, At(a1, i) - 1)
                           IN Put(a3, i + 1, At(a3, i + 1) + 2)
            IN [ a |-> a2, total |-> s.total - 1 ]
    IN Iterate(step, LAMBDA s : s.total = Pow2(max_code_size),
               [ a |-> folded, total |-> total0 ], LoopFuel).a

\* The used symbols of pSym_count with their counts as 16-bit keys.
UsedSyms(pSym_count, table_len) ==
    Iterate(LAMBDA s : [ i |-> s.i + 1,
                         a |-> IF At(pSym_count, s.i) # 0
                               THEN Append(s.a, [ m_key |-> U16(At(pSym_count, s.i)),
                                                  m_sym_index |-> s.i ])
                               ELSE s.a ],
            LAMBDA s : ~(s.i < table_len),
            [ i |-> 0, a |-> << >> ], LoopFuel).a

\* for (i = 0; i < num_used_syms; i++) num_codes[pSyms[i].m_key]++
CountCodeSizes(pSyms) ==
    Iterate(LAMBDA s : [ i |-> s.i + 1,
                         a |-> Put(s.a, At(pSyms, s.i).m_key,
                                   At(s.a, At(pSyms, s.i).m_key) + 1) ],
            LAMBDA s : ~(s.i < Len(pSyms)),
            [ i |-> 0, a |-> Zeros(1 + DEFL_MAX_SUPPORTED_HUFF_CODESIZE) ], LoopFuel).a

\* for (i = 1, j = num_used_syms; i <= code_size_limit; i++)
\*   for (l = num_codes[i]; l > 0; l--) sizes[pSyms[--j].m_sym_index] = i
AssignCodeSizes(pSyms, num_codes, table_len, code_size_limit) ==
    Iterate(LAMBDA s : IF s.l > 0
                       THEN [ s EXCEPT !.l = s.l - 1, !.j = s.j - 1,
                                !.a = Put(s.a, At(pSyms, s.j - 1).m_sym_index, s.i) ]
                       ELSE [ s EXCEPT !.i = s.i + 1,
                                !.l = IF s.i + 1 <= code_size_limit
                                      THEN At(num_codes, s.i + 1) ELSE 0 ],
            LAMBDA s : ~(s.i <= code_size_limit),
            [ i |-> 1, l |-> At(num_codes, 1), j |-> Len(pSyms),
              a |-> Zeros(table_len) ], LoopFuel).a

\* next_code[1] = 0; next_code[i] = j = ((j + num_codes[i - 1]) << 1)
NextCodes(num_codes, code_size_limit) ==
    Iterate(LAMBDA s : [ i |-> s.i + 1, j |-> (s.j + At(num_codes, s.i - 1)) * 2,
                         a |-> Put(s.a, s.i, (s.j + At(num_codes, s.i - 1)) * 2) ],
            LAMBDA s : ~(s.i <= code_size_limit),
            [ i |-> 2, j |-> 0, a |-> Zeros(1 + DEFL_MAX_SUPPORTED_HUFF_CODESIZE) ],
            LoopFuel).a

\* The code_size low bits of code, in reverse order.
ReverseCode(code, code_size) ==
    Iterate(LAMBDA s : [ l |-> s.l - 1, code |-> s.code \div 2,
                         rev_code |-> s.rev_code * 2 + (s.code % 2) ],
            LAMBDA s : ~(s.l > 0),
            [ l |-> code_size, code |-> code, rev_code |-> 0 ], LoopFuel).rev_code

\* The codes of the symbols in index order, each the reverse of the next
\* code of its size.
AssignCodes(sizes, next_code, table_len) ==
    Iterate(LAMBDA s : IF At(sizes, s.i) = 0 THEN [ s EXCEPT !.i = s.i + 1 ]
                       ELSE [ i |-> s.i + 1,
                              nc |-> Put(s.nc, At(sizes, s.i), At(s.nc, At(sizes, s.i)) + 1),
                              a |-> Put(s.a, s.i, U16(ReverseCode(At(s.nc, At(sizes, s.i)),
                                                                  At(sizes, s.i)))) ],
            LAMBDA s : ~(s.i < table_len),
            [ i |-> 0, nc |-> next_code, a |-> Zeros(table_len) ], LoopFuel).a

\* defl_optimize_huffman_table(d, table_num, table_len, code_size_limit,
\* static_table = false) on the counts pSym_count: the code sizes and the
\* codes of the table.
defl_optimize_huffman_table(pSym_count, table_len, code_size_limit) ==
    The({ The({ The({ The({ The({ The({
        [ m_huff_code_sizes |-> sizes,
          m_huff_codes |-> AssignCodes(sizes, next_code, table_len) ] :
            next_code \in { NextCodes(num_codes, code_size_limit) } }) :
            sizes \in { AssignCodeSizes(pSyms, num_codes, table_len, code_size_limit) } }) :
            num_codes \in { defl_huffman_enforce_max_code_size(
                                CountCodeSizes(pSyms), Len(pSyms), code_size_limit) } }) :
            pSyms \in { defl_calculate_minimum_redundancy(defl_radix_sort_syms(syms0)) } }) :
            syms0 \in { UsedSyms(count, table_len) } }) :
            count \in { pSym_count } })

\* ---------------------------------------------------------------------
\* The bit buffer of the writer
\* ---------------------------------------------------------------------

\* The writer's output state: ok is FALSE once a write did not fit (the
\* function then returns 0), bits are the bits held in bit_buf (the
\* least significant first; bit_buf_size is their number), dst the bytes
\* written (dst_ofs is their number), over records that bit_buf_size
\* exceeded the 64 bits of bit_buf.  Three more fields record what the
\* writer did: peak is the greatest bit_buf_size after a PUT_BITS, left
\* the greatest bit_buf_size after a PUT_BITS_FLUSH, hi the offset after
\* the last byte of pDst stored to.  put, once it has been given a first
\* element, collects every bit handed to PUT_BITS, in order.
WriterInit(bit_buf, bit_buf_size, dst) ==
    [ ok |-> TRUE, bits |-> [i \in 1..bit_buf_size |-> (bit_buf \div Pow2(i - 1)) % 2],
      dst |-> dst, over |-> FALSE, peak |-> bit_buf_size, left |-> 0, hi |-> Len(dst),
      put |-> << >> ]

BitBufBits == 64

\* The bytes made of the first 8 * n bits, the missing bits being zero.
BitsToBytes(bits, n) ==
    [ j \in 1..n |->
        LET bit(i) == IF 8 * (j - 1) + i <= Len(bits) THEN bits[8 * (j - 1) + i] ELSE 0
        IN bit(1) + 2 * bit(2) + 4 * bit(3) + 8 * bit(4)
           + 16 * bit(5) + 32 * bit(6) + 64 * bit(7) + 128 * bit(8) ]

DropBits(bits, n) == IF n >= Len(bits) THEN << >> ELSE SubSeq(bits, n + 1, Len(bits))

\* PUT_BITS(bb, ll) and PUT_BITS_CZ(bb, ll)
PUT_BITS(W, bb, ll) ==
    IF ~W.ok THEN W
    ELSE [ W EXCEPT !.bits = W.bits \o [i \in 1..ll |-> (bb \div Pow2(i - 1)) % 2],
                    !.over = W.over \/ Len(W.bits) + ll > BitBufBits,
                    !.peak = Max(W.peak, Len(W.bits) + ll),
                    !.put = IF @ = << >> THEN @
                            ELSE @ \o [i \in 1..ll |-> (bb \div Pow2(i - 1)) % 2] ]

\* A flush that stores its 8 bytes without asking whether they fit.
FlushUnchecked(W, dst_buf_size) ==
    IF ~W.ok THEN W
    ELSE LET n == Len(W.bits) \div 8
         IN [ W EXCEPT !.dst = W.dst \o BitsToBytes(W.bits, n),
                       !.bits = DropBits(W.bits, 8 * n),
                       !.left = Max(W.left, Len(W.bits) - 8 * n),
                       !.hi = Max(W.hi, Len(W.dst) + 8) ]

\* PUT_BITS_FLUSH: fails unless 8 bytes fit at dst_ofs; stores the 8
\* bytes of bit_buf (WRITE_LE64) and moves dst_ofs over the whole bytes
\* of the bit buffer.
PUT_BITS_FLUSH(W, dst_buf_size) ==
    IF ~W.ok THEN W
    ELSE IF Len(W.dst) + 8 > dst_buf_size THEN [ W EXCEPT !.ok = FALSE ]
    ELSE LET n == Len(W.bits) \div 8
         IN [ W EXCEPT !.dst = W.dst \o BitsToBytes(W.bits, n),
                       !.bits = DropBits(W.bits, 8 * n),
                       !.left = Max(W.left, Len(W.bits) - 8 * n),
                       !.hi = Max(W.hi, Len(W.dst) + 8) ]

\* PUT_BITS_FORCE_FLUSH: a byte at a time while bits remain, each only if
\* it fits.
PUT_BITS_FORCE_FLUSH(W, dst_buf_size) ==
    IF ~W.ok THEN W
    ELSE LET n == (Len(W.bits) + 7) \div 8
         IN IF Len(W.dst) + n > dst_buf_size THEN [ W EXCEPT !.ok = FALSE ]
            ELSE [ W EXCEPT !.dst = W.dst \o BitsToBytes(W.bits, n), !.bits = << >>,
                            !.hi = Max(W.hi, Len(W.dst) + n) ]

\* DEFL_DYN_PUT_BITS(bb, ll): the bits, then every whole byte of the
\* buffer written, each only if it fits.
DEFL_DYN_PUT_BITS(W, bb, ll, dst_buf_size) ==
    IF ~W.ok THEN W
    ELSE LET W1 == PUT_BITS(W, bb, ll)
             n == Len(W1.bits) \div 8
         IN IF Len(W1.dst) + n > dst_buf_size THEN [ W1 EXCEPT !.ok = FALSE ]
            ELSE [ W1 EXCEPT !.dst = W1.dst \o BitsToBytes(W1.bits, n),
                             !.bits = DropBits(W1.bits, 8 * n),
                             !.hi = Max(W1.hi, Len(W1.dst) + n) ]

\* The four bytes of the Adler-32, most significant first, each written
\* only if it fits.
PutAdler(W, adler, dst_buf_size) ==
    IF ~W.ok THEN W
    ELSE IF Len(W.dst) + 4 > dst_buf_size THEN [ W EXCEPT !.ok = FALSE ]
    ELSE [ W EXCEPT !.dst = W.dst \o AdlerBE(adler), !.hi = Max(W.hi, Len(W.dst) + 4) ]

\* ---------------------------------------------------------------------
\* The header of a dynamic block
\* ---------------------------------------------------------------------

Repeat(v, n) == [i \in 1..n |-> v]

\* DEFL_RLE_PREV_CODE_SIZE() on the packing state s: count is
\* m_huff_count[2], packed is packed_code_sizes.
DEFL_RLE_PREV_CODE_SIZE(s) ==
    IF s.rle_repeat_count = 0 THEN s
    ELSE IF s.rle_repeat_count < 3
    THEN [ s EXCEPT !.count = Put(s.count, s.prev_code_size,
                                  U16(At(s.count, s.prev_code_size) + s.rle_repeat_count)),
                    !.packed = s.packed \o Repeat(s.prev_code_size, s.rle_repeat_count),
                    !.rle_repeat_count = 0 ]
    ELSE [ s EXCEPT !.count = Put(s.count, 16, U16(At(s.count, 16) + 1)),
                    !.packed = s.packed \o << 16, (s.rle_repeat_count - 3) % 256 >>,
                    !.rle_repeat_count = 0 ]

\* A run of zeros written with the code 17 however long it is.
ZeroRunAlways17(s) ==
    IF s.rle_z_count = 0 THEN s
    ELSE [ s EXCEPT !.count = Put(s.count, 17, U16(At(s.count, 17) + 1)),
                    !.packed = s.packed \o << 17, (s.rle_z_count - 3) % 256 >>,
                    !.rle_z_count = 0 ]

\* DEFL_RLE_ZERO_CODE_SIZE()
DEFL_RLE_ZERO_CODE_SIZE(s) ==
    IF s.rle_z_count = 0 THEN s
    ELSE IF s.rle_z_count < 3
    THEN [ s EXCEPT !.count = Put(s.count, 0, U16(At(s.count, 0) + s.rle_z_count)),
                    !.packed = s.packed \o Repeat(0, s.rle_z_count),
                    !.rle_z_count = 0 ]
    ELSE IF s.rle_z_count <= 10
    THEN [ s EXCEPT !.count = Put(s.count, 17, U16(At(s.count, 17) + 1)),
                    !.packed = s.packed \o << 17, (s.rle_z_count - 3) % 256 >>,
                    !.rle_z_count = 0 ]
    ELSE [ s EXCEPT !.count = Put(s.count, 18, U16(At(s.count, 18) + 1)),
                    !.packed = s.packed \o << 18, (s.rle_z_count - 11) % 256 >>,
                    !.rle_z_count = 0 ]

\* One turn of the loop over code_sizes_to_pack.
PackCodeSize(s, code_size) ==
    LET t == IF code_size = 0
             THEN LET s1 == DEFL_RLE_PREV_CODE_SIZE(s)
                      s2 == [ s1 EXCEPT !.rle_z_count = s1.rle_z_count + 1 ]
                  IN IF s2.rle_z_count = 138 THEN DEFL_RLE_ZERO_CODE_SIZE(s2) ELSE s2
             ELSE LET s1 == DEFL_RLE_ZERO_CODE_SIZE(s)
                  IN IF code_size # s1.prev_code_size
                     THEN LET s2 == DEFL_RLE_PREV_CODE_SIZE(s1)
                          IN [ s2 EXCEPT !.count = Put(s2.count, code_size,
                                                       U16(At(s2.count, code_size) + 1)),
                                         !.packed = Append(s2.packed, code_size) ]
                     ELSE LET s2 == [ s1 EXCEPT !.rle_repeat_count = s1.rle_repeat_count + 1 ]
                          IN IF s2.rle_repeat_count = 6 THEN DEFL_RLE_PREV_CODE_SIZE(s2) ELSE s2
    IN [ t EXCEPT !.prev_code_size = code_size, !.i = s.i + 1 ]

\* The packed code sizes of code_sizes_to_pack and the counts of the
\* symbols of table 2 they use.
PackCodeSizes(code_sizes_to_pack) ==
    LET s == Iterate(LAMBDA s : PackCodeSize(s, At(code_sizes_to_pack, s.i)),
                     LAMBDA s : ~(s.i < Len(code_sizes_to_pack)),
                     [ i |-> 0, packed |-> << >>, count |-> Zeros(DEFL_MAX_HUFF_SYMBOLS_2),
                       rle_z_count |-> 0, rle_repeat_count |-> 0, prev_code_size |-> 255 ],
                     LoopFuel)
    IN IF s.rle_repeat_count # 0 THEN DEFL_RLE_PREV_CODE_SIZE(s)
       ELSE DEFL_RLE_ZERO_CODE_SIZE(s)

\* The largest n in lo+1..hi with sizes[n - 1] # 0, lo when there is none.
LastUsed(sizes, hi, lo) ==
    Iterate(LAMBDA n : n - 1, LAMBDA n : ~(n > lo) \/ At(sizes, n - 1) # 0, hi, LoopFuel)

\* The number of extra bits of the packed codes 16, 17 and 18.
PackedExtraBits == << 2, 3, 7 >>

\* The number of code length codes sent: the last used one in the order
\* of g_defl_packed_code_size_syms_swizzle, at least 4.
NumBitLengths(code_sizes_2) ==
    Max(4, 1 + Iterate(LAMBDA n : n - 1,
                       LAMBDA n : ~(n >= 0)
                                  \/ At(code_sizes_2,
                                        At(g_defl_packed_code_size_syms_swizzle, n)) # 0,
                       18, LoopFuel))

\* The block type and the three counts of the block header.
PutBlockHeader(W, num_lit_codes, num_dist_codes, num_bit_lengths, dst_buf_size) ==
    DEFL_DYN_PUT_BITS(
        DEFL_DYN_PUT_BITS(
            DEFL_DYN_PUT_BITS(DEFL_DYN_PUT_BITS(W, 2, 2, dst_buf_size),
                              num_lit_codes - 257, 5, dst_buf_size),
            num_dist_codes - 1, 5, dst_buf_size),
        num_bit_lengths - 4, 4, dst_buf_size)

\* The code sizes of table 2, three bits each, in swizzle order.
PutBitLengths(W, code_sizes_2, num_bit_lengths, dst_buf_size) ==
    Iterate(LAMBDA s : [ i |-> s.i + 1,
                         W |-> DEFL_DYN_PUT_BITS(s.W,
                                  At(code_sizes_2,
                                     At(g_defl_packed_code_size_syms_swizzle, s.i)),
                                  3, dst_buf_size) ],
            LAMBDA s : ~(s.i < num_bit_lengths),
            [ i |-> 0, W |-> W ], LoopFuel).W

\* The packed code sizes in the codes of table 2, the codes 16, 17 and 18
\* followed by their extra bits.
PutPackedCodes(W, packed, t2, dst_buf_size) ==
    Iterate(LAMBDA s :
              IF At(packed, s.i) >= 16
              THEN [ i |-> s.i + 2,
                     W |-> DEFL_DYN_PUT_BITS(
                               DEFL_DYN_PUT_BITS(s.W, At(t2.m_huff_codes, At(packed, s.i)),
                                                 At(t2.m_huff_code_sizes, At(packed, s.i)),
                                                 dst_buf_size),
                               At(packed, s.i + 1), PackedExtraBits[At(packed, s.i) - 15],
                               dst_buf_size) ]
              ELSE [ i |-> s.i + 1,
                     W |-> DEFL_DYN_PUT_BITS(s.W, At(t2.m_huff_codes, At(packed, s.i)),
                                             At(t2.m_huff_code_sizes, At(packed, s.i)),
                                             dst_buf_size) ],
            LAMBDA s : ~(s.i < Len(packed)),
            [ i |-> 0, W |-> W ], LoopFuel).W

\* The block header for the tables t0 and t1, pk being their packed code
\* sizes and t2 the table of the packed codes.
PutDynamicHeader(W, t0, t1, pk, t2, dst_buf_size) ==
    PutPackedCodes(
        PutBitLengths(
            PutBlockHeader(W, LastUsed(t0.m_huff_code_sizes, 286, 257),
                           LastUsed(t1.m_huff_code_sizes, 30, 1),
                           NumBitLengths(t2.m_huff_code_sizes), dst_buf_size),
            t2.m_huff_code_sizes, NumBitLengths(t2.m_huff_code_sizes), dst_buf_size),
        pk.packed, t2, dst_buf_size)

\* defl_start_dynamic_block on the counts of tables 0 and 1 and the writer
\* state W: the writer state after the block header (ok is FALSE when it
\* did not fit) and the code sizes and codes of tables 0 and 1.
defl_start_dynamic_block(huff_count_0, huff_count_1, W, dst_buf_size) ==
    The({ The({ The({ The({
        [ W |-> The({ Wh : Wh \in { PutDynamicHeader(W, t0, t1, pk, t2, dst_buf_size) } }),
          huff_0 |-> t0, huff_1 |-> t1 ] :
            t2 \in { defl_optimize_huffman_table(pk.count, DEFL_MAX_HUFF_SYMBOLS_2, 7) } }) :
            pk \in { PackCodeSizes(
                         SubSeq(t0.m_huff_code_sizes, 1,
                                LastUsed(t0.m_huff_code_sizes, 286, 257))
                         \o SubSeq(t1.m_huff_code_sizes, 1,
                                   LastUsed(t1.m_huff_code_sizes, 30, 1))) } }) :
            t1 \in { defl_optimize_huffman_table(huff_count_1,
                                                 DEFL_MAX_HUFF_SYMBOLS_1, 12) } }) :
            t0 \in { defl_optimize_huffman_table(Put(huff_count_0, 256, 1),
                                                 DEFL_MAX_HUFF_SYMBOLS_0, 12) } })

\* adjust_freq32(num_freq, pFreq, pFreq16): the 16-bit counts pFreq16,
\* f * UINT16_MAX being a 64-bit product (total_freq is below 2^23 here).
\* The closing loop of the function halves pFreq only, which no caller
\* reads again, and leaves pFreq16 as computed here.
adjust_freq32(num_freq, pFreq) ==
    LET total_freq == Iterate(LAMBDA s : [ i |-> s.i + 1, t |-> s.t + At(pFreq, s.i) ],
                              LAMBDA s : ~(s.i < num_freq),
                              [ i |-> 0, t |-> 0 ], LoopFuel).t
    IN IF total_freq = 0 THEN Zeros(num_freq)
       ELSE [ i \in 1..num_freq |->
                IF pFreq[i] = 0 THEN 0
                ELSE U16(Max(1, FromLE(UDivSmall(UMulSmall(U64(pFreq[i]), UINT16_MAX),
                                                 total_freq)))) ]

\* ---------------------------------------------------------------------
\* The pixel run-length coders
\* ---------------------------------------------------------------------

\* The coders for 3 and 4 channels differ in the pixel width n, in the
\* longest match (255 or 252 bytes), in the flush before the fourth
\* literal and, in one pass, in the position of the first flush of a row
\* and in the cost test of the shortest match.  They are written once, n
\* being the pixel width.  A pixel is READ_LE32(pSrc + src_ofs), masked
\* with 0xFFFFFF when n is 3: the n bytes at src_ofs.

\* A pixel load that gives zeros whatever the buffer holds.
PixelAtZeros(pSrc, src_ofs, n) == Zeros(n)

\* The n bytes of the pixel at src_ofs.
PixelAt(pSrc, src_ofs, n) == Slice(pSrc, src_ofs, n)

\* A cap of 258, the longest match of the format.
MaxMatchLenOfFormat(n) == 258

\* The cap on match_len: 255 and 252.
MaxMatchLen(n) == IF n = 3 THEN 255 ELSE 252

\* A match that goes on to its greatest length whatever the pixels are.
MatchLengthToRowEnd(pSrc, src_ofs, end_src_ofs, lits, n) ==
    Min(MaxMatchLen(n), end_src_ofs - src_ofs)

\* while (match_len < max_match_len) { if (pixel at src_ofs + match_len
\* != lits) break; match_len += n; }
MatchLength(pSrc, src_ofs, end_src_ofs, lits, n) ==
    LET max_match_len == Min(MaxMatchLen(n), end_src_ofs - src_ofs)
    IN Iterate(LAMBDA match_len : match_len + n,
               LAMBDA match_len : ~(match_len < max_match_len)
                                  \/ PixelAt(pSrc, src_ofs + match_len, n) # lits,
               n, LoopFuel)

Incr(freq, sym) == Put(freq, sym, At(freq, sym) + 1)

RECURSIVE IncrAll(_, _)
IncrAll(freq, lits) ==
    IF lits = << >> THEN freq ELSE IncrAll(Incr(freq, Head(lits)), Tail(lits))

\* The first pass over one row: the codes and the literal frequencies.  A
\* code is written as its bytes, the least significant first: << 1,
\* filter_lit >> is 1 | (filter_lit << 8), << 0 >> \o lits is lits << 8
\* and << match_len - 1 >> is a match.  hi is the offset after the last
\* byte of pSrc read so far: every pixel is read by READ_LE32, 4 bytes
\* from its offset on, also the pixel at which a match is found to end.
ScanRow(pSrc, n, bpl, st) ==
    LET end_src_ofs == st.src_ofs + bpl
        filter_lit == At(pSrc, st.src_ofs)
        first == PixelAt(pSrc, st.src_ofs + 1, n)
        r == Iterate(LAMBDA s :
                       LET lits == PixelAt(pSrc, s.src_ofs, n)
                       IN IF lits = s.prev_lits
                          THEN LET match_len == MatchLength(pSrc, s.src_ofs, end_src_ofs, lits, n)
                                   last_load == IF match_len < Min(MaxMatchLen(n),
                                                                   end_src_ofs - s.src_ofs)
                                                THEN s.src_ofs + match_len
                                                ELSE s.src_ofs + match_len - n
                               IN [ s EXCEPT !.codes = Append(s.codes, << match_len - 1 >>),
                                      !.lit_freq = Incr(s.lit_freq,
                                                        At(g_defl_len_sym, match_len - 3)),
                                      !.src_ofs = s.src_ofs + match_len,
                                      !.hi = Max(s.hi, last_load + 4) ]
                          ELSE [ codes |-> Append(s.codes, << 0 >> \o lits),
                                 lit_freq |-> IncrAll(s.lit_freq, lits),
                                 prev_lits |-> lits,
                                 src_ofs |-> s.src_ofs + n,
                                 hi |-> Max(s.hi, s.src_ofs + 4) ],
                     LAMBDA s : ~(s.src_ofs < end_src_ofs),
                     [ codes |-> st.codes \o << << 1, filter_lit >>, << 0 >> \o first >>,
                       lit_freq |-> IncrAll(Incr(st.lit_freq, filter_lit), first),
                       prev_lits |-> first,
                       src_ofs |-> st.src_ofs + 1 + n,
                       hi |-> Max(st.hi, st.src_ofs + 1 + 4) ],
                     LoopFuel)
    IN [ y |-> st.y + 1, src_ofs |-> r.src_ofs, codes |-> r.codes, lit_freq |-> r.lit_freq,
         hi |-> r.hi ]

\* PUT_BITS_CZ(code, code_size) of symbol sym of the table cs, a sequence
\* of pairs << m_code_size, m_code >>.
PutSym(W, cs, sym) == PUT_BITS(W, At(cs, sym)[2], At(cs, sym)[1])

\* The literals of one pixel; with 4 channels the buffer is flushed
\* before the fourth when it holds 49 bits or more.
PutLits(W, cs, lits, dst_buf_size) ==
    LET W3 == PutSym(PutSym(PutSym(W, cs, lits[1]), cs, lits[2]), cs, lits[3])
    IN IF Len(lits) = 3 THEN W3
       ELSE PutSym(IF Len(W3.bits) >= 49 THEN PUT_BITS_FLUSH(W3, dst_buf_size) ELSE W3,
                   cs, lits[4])

\* The length symbol of a match, its extra bits and the one bit of the
\* distance code, which is always 0.
PutMatch(W, cs, match_len) ==
    LET adj_match_len == match_len - 3
        len_extra_bits == At(g_defl_len_extra, adj_match_len)
    IN PUT_BITS(PutSym(W, cs, At(g_defl_len_sym, adj_match_len)),
                BitAnd(adj_match_len, At(g_bitmasks, len_extra_bits)),
                len_extra_bits + 1)

\* The end of block symbol, the last bits and the Adler-32 of the
\* filtered rows.
FinishBlock(W, cs, pImg, dst_buf_size) ==
    PutAdler(PUT_BITS_FORCE_FLUSH(PutSym(W, cs, 256), dst_buf_size),
             fpng_adler32(<< FPNG_ADLER32_INIT, 0 >>, pImg, 0, Len(pImg)),
             dst_buf_size)

\* The state of the first pass before the first row.
ScanStart ==
    [ y |-> 0, src_ofs |-> 0, codes |-> << >>,
      lit_freq |-> Zeros(DEFL_MAX_HUFF_SYMBOLS_0), hi |-> 0 ]

\* The first pass over all rows: the codes and the literal counts.
ScanRows(pImg, w, h, n) ==
    Iterate(LAMBDA st : ScanRow(pImg, n, 1 + w * n, st),
            LAMBDA st : ~(st.y < h),
            ScanStart, LoopFuel)

\* m_huff_code_sizes[0][i] and m_huff_codes[0][i] side by side.
CodeTable(huff) ==
    [ i \in 1..DEFL_MAX_HUFF_SYMBOLS_0 |->
        << huff.m_huff_code_sizes[i], huff.m_huff_codes[i] >> ]

\* One turn of the second pass: the bits of one code of the first pass,
\* then PUT_BITS_FLUSH.
PutCode(W, code, cs, dst_buf_size) ==
    PUT_BITS_FLUSH(IF code[1] = 0 THEN PutLits(W, cs, Tail(code), dst_buf_size)
                   ELSE IF code[1] = 1 THEN PutSym(W, cs, code[2])
                   ELSE PutMatch(W, cs, code[1] + 1),
                   dst_buf_size)

\* The second pass: every code of the first pass in the codes of cs.
PutCodes(W, codes, cs, dst_buf_size) ==
    Iterate(LAMBDA s :
              [ i |-> s.i + 1,
                W |-> PutCode(s.W, At(codes, s.i), cs, dst_buf_size) ],
            LAMBDA s : ~(s.i < Len(codes)),
            [ i |-> 0, W |-> W ], LoopFuel).W

\* The two-pass coder.  The result is the writer state: ok tells that the
\* function returned dst_ofs, dst being the dst_ofs bytes written; it
\* returned 0 otherwise.
PixelDeflateTwoPass(pImg, w, h, n, dst_buf_size) ==
    The({ The({
        IF ~dh.W.ok THEN dh.W
        ELSE The({ FinishBlock(W1, CodeTable(dh.huff_0), pImg, dst_buf_size) :
                   W1 \in { PutCodes(dh.W, scan.codes, CodeTable(dh.huff_0),
                                     dst_buf_size) } }) :
            dh \in { defl_start_dynamic_block(
                         adjust_freq32(DEFL_MAX_HUFF_SYMBOLS_0, Put(scan.lit_freq, 256, 1)),
                         Put(Zeros(DEFL_MAX_HUFF_SYMBOLS_1),
                             At(g_defl_small_dist_sym, n - 1), 1),
                         PUT_BITS(PUT_BITS(PUT_BITS(WriterInit(0, 0, << >>), 120, 8), 1, 8),
                                  1, 1),
                         dst_buf_size) } }) :
            scan \in { ScanRows(pImg, w, h, n) } })

pixel_deflate_dyn_3_rle(pImg, w, h, dst_buf_size) ==
    PixelDeflateTwoPass(pImg, w, h, 3, dst_buf_size)

pixel_deflate_dyn_4_rle(pImg, w, h, dst_buf_size) ==
    PixelDeflateTwoPass(pImg, w, h, 4, dst_buf_size)

\* One row of the one-pass coder with the fixed table cs.
OnePassRow(pSrc, n, bpl, cs, dst_buf_size, st) ==
    LET end_src_ofs == st.src_ofs + bpl
        filter_lit == At(pSrc, st.src_ofs)
        first == PixelAt(pSrc, st.src_ofs + 1, n)
        Wf == PutSym(st.W, cs, filter_lit)
        Wp == PUT_BITS_FLUSH(PutLits(IF n = 4 THEN PUT_BITS_FLUSH(Wf, dst_buf_size) ELSE Wf,
                                     cs, first, dst_buf_size), dst_buf_size)
        r == Iterate(LAMBDA s :
                       LET lits == PixelAt(pSrc, s.src_ofs, n)
                           match_len == MatchLength(pSrc, s.src_ofs, end_src_ofs, lits, n)
                           adj_match_len == match_len - 3
                           match_code_bits == At(cs, At(g_defl_len_sym, adj_match_len))[1]
                           len_extra_bits == At(g_defl_len_extra, adj_match_len)
                           lit_bits == At(cs, lits[1])[1] + At(cs, lits[2])[1]
                                       + At(cs, lits[3])[1] + At(cs, lits[4])[1]
                           do_literals == \/ lits # s.prev_lits
                                          \/ /\ n = 4
                                             /\ match_len = 4
                                             /\ (match_code_bits + len_extra_bits + 1) > lit_bits
                       IN IF do_literals
                          THEN [ W |-> PUT_BITS_FLUSH(PutLits(s.W, cs, lits, dst_buf_size),
                                                      dst_buf_size),
                                 prev_lits |-> lits,
                                 src_ofs |-> s.src_ofs + n ]
                          ELSE [ s EXCEPT !.W = PUT_BITS_FLUSH(PutMatch(s.W, cs, match_len),
                                                               dst_buf_size),
                                          !.src_ofs = s.src_ofs + match_len ],
                     LAMBDA s : ~(s.src_ofs < end_src_ofs) \/ ~s.W.ok,
                     [ W |-> Wp, prev_lits |-> first, src_ofs |-> st.src_ofs + 1 + n ],
                     LoopFuel)
    IN [ y |-> st.y + 1, src_ofs |-> r.src_ofs, W |-> r.W ]

\* The one-pass coder with the prebuilt block header hdr, the bits
\* bit_buf left in the bit buffer after it and the fixed table cs.
PixelDeflateOnePass(pImg, w, h, n, dst_buf_size, hdr, bit_buf, bit_buf_size, cs) ==
    LET bpl == 1 + w * n
        Wfail == [ WriterInit(0, 0, << >>) EXCEPT !.ok = FALSE ]
        rows == Iterate(LAMBDA st : OnePassRow(pImg, n, bpl, cs, dst_buf_size, st),
                        LAMBDA st : ~(st.y < h) \/ ~st.W.ok,
                        [ y |-> 0, src_ofs |-> 0,
                          W |-> WriterInit(bit_buf, bit_buf_size, hdr) ], LoopFuel)
    IN IF dst_buf_size < Len(hdr) THEN Wfail
       ELSE IF rows = rows THEN FinishBlock(rows.W, cs, pImg, dst_buf_size) ELSE Wfail

pixel_deflate_dyn_3_rle_one_pass(pImg, w, h, dst_buf_size) ==
    PixelDeflateOnePass(pImg, w, h, 3, dst_buf_size, g_dyn_huff_3,
                        DYN_HUFF_3_BITBUF, DYN_HUFF_3_BITBUF_SIZE, g_dyn_huff_3_codes)

pixel_deflate_dyn_4_rle_one_pass(pImg, w, h, dst_buf_size) ==
    PixelDeflateOnePass(pImg, w, h, 4, dst_buf_size, g_dyn_huff_4,
                        DYN_HUFF_4_BITBUF, DYN_HUFF_4_BITBUF_SIZE, g_dyn_huff_4_codes)

\* ---------------------------------------------------------------------
\* The writer: filtering, stored blocks, the PNG envelope
\* ---------------------------------------------------------------------

FPNG_MAX_SUPPORTED_DIM == 16777216

FPNG_FDEC_VERSION == 0

PNG_HEADER_SIZE == 58

UINT32_MAX == << 255, 255, 255, 255 >>


EncodeFlags == { "FPNG_ENCODE_SLOWER", "FPNG_FORCE_UNCOMPRESSED" }

\* apply_filter(filter, ...) for row y of the image: the filter byte
\* followed by the row (filter 0) or by the row minus the row above,
\* byte by byte modulo 256 (filter 2).
apply_filter(filter, num_chans, bpl, pImage, y) ==
    IF filter = 0
    THEN << 0 >> \o Slice(pImage, y * bpl, bpl)
    ELSE << 2 >> \o [i \in 1..bpl |->
                       (pImage[y * bpl + i] - pImage[(y - 1) * bpl + i] + 256) % 256]

\* The rows y .. h - 1 of the image filtered one after the other into
\* temp_buf: row 0 with filter 0, every further row with rest_filter.
RECURSIVE FilterRows(_, _, _, _, _, _)
FilterRows(rest_filter, num_chans, bpl, pImage, y, h) ==
    IF y = h THEN << >>
    ELSE apply_filter(IF y > 0 THEN rest_filter ELSE 0, num_chans, bpl, pImage, y)
             \o FilterRows(rest_filter, num_chans, bpl, pImage, y + 1, h)

\* (w < 1) || (h < 1) || (w * h > UINT32_MAX) || (w > MAX) || (h > MAX),
\* the product being the 32-bit product the comparison is made on; then
\* the channel count test.
EncodeArgsValid(w, h, num_chans) ==
    /\ ~( \/ w < 1
          \/ h < 1
          \/ ULt(UINT32_MAX, UMul(U32(w), U32(h)))
          \/ w > FPNG_MAX_SUPPORTED_DIM
          \/ h > FPNG_MAX_SUPPORTED_DIM )
    /\ ~(num_chans # 3 /\ num_chans # 4)

\* (bpl + 1) * h as the 32-bit product, and as the product without wrap.
EncFilteredLen(w, h, num_chans) == UMul(U32(w * num_chans + 1), U32(h))

EncFilteredLen64(w, h, num_chans) == UMul(U64(w * num_chans + 1), U64(h))

\* temp_buf.resize(((bpl + 1) * h + 7) & ~7)
EncTempBufSize(w, h, num_chans) ==
    UAndNot7(UAdd(EncFilteredLen(w, h, num_chans), U32(7)))

\* An output buffer with 64 bytes more than the encoder gives it.
EncOutBufRoomy(w, h, num_chans) ==
    UAndNot7(UAdd(UAdd(U32(PNG_HEADER_SIZE), EncFilteredLen(w, h, num_chans)), U32(71)))

\* out_buf.resize((out_ofs + (bpl + 1) * h + 7) & ~7)
EncOutBufSize(w, h, num_chans) ==
    UAndNot7(UAdd(UAdd(U32(PNG_HEADER_SIZE), EncFilteredLen(w, h, num_chans)), U32(7)))

\* out_buf.resize(out_ofs + 6 + temp_buf_ofs + ((temp_buf_ofs + 65534) / 65535) * 5)
EncRawBufSize(temp_buf_ofs) ==
    UAdd(UAdd(UAdd(U32(PNG_HEADER_SIZE), U32(6)), temp_buf_ofs),
         UMulSmall(UDivSmall(UAdd(temp_buf_ofs, U32(65534)), 65535), 5))

\* The control flow of write_raw_block on sizes alone.  The loop state is
\* the pair of 32-bit offsets and the verdict: "run" while blocks remain,
\* "fail" when a block does not fit, "done" after the last block.
RawBlockStep(st, src_len, dst_buf_size) ==
    IF st.at # "run" THEN st
    ELSE IF ~ULt(st.src_ofs, src_len) THEN [st EXCEPT !.at = "done"]
    ELSE LET src_remaining == USub(src_len, st.src_ofs)
             block_size == IF ULt(U32(UINT16_MAX), src_remaining)
                           THEN U32(UINT16_MAX) ELSE src_remaining
         IN IF ULt(dst_buf_size, UAdd(UAdd(st.dst_ofs, U32(5)), block_size))
            THEN [st EXCEPT !.at = "fail"]
            ELSE [ at |-> "run",
                   src_ofs |-> UAdd(st.src_ofs, block_size),
                   dst_ofs |-> UAdd(UAdd(st.dst_ofs, U32(5)), block_size) ]

\* Up to 2^k turns of the loop, one half after the other.
RECURSIVE RawBlockLoop(_, _, _, _)
RawBlockLoop(st, src_len, dst_buf_size, k) ==
    IF st.at # "run" THEN st
    ELSE IF k = 0 THEN RawBlockStep(st, src_len, dst_buf_size)
    ELSE LET m == RawBlockLoop(st, src_len, dst_buf_size, k - 1)
         IN IF m = m THEN RawBlockLoop(m, src_len, dst_buf_size, k - 1) ELSE m

RawBlockFuel == 17

\* The four Adler-32 bytes, each written only if dst_ofs + 1 <= dst_buf_size.
RECURSIVE RawAdlerSize(_, _, _)
RawAdlerSize(dst_ofs, dst_buf_size, i) ==
    IF i = 4 THEN dst_ofs
    ELSE IF ULt(dst_buf_size, UAdd(dst_ofs, U32(1))) THEN U32(0)
    ELSE RawAdlerSize(UAdd(dst_ofs, U32(1)), dst_buf_size, i + 1)

\* The value write_raw_block returns for a source of src_len bytes and a
\* destination of dst_buf_size bytes (both 32-bit); zero is failure.
write_raw_block_size(src_len, dst_buf_size) ==
    IF ULt(dst_buf_size, U32(2)) THEN U32(0)
    ELSE LET st == RawBlockLoop([ at |-> "run", src_ofs |-> U32(0), dst_ofs |-> U32(2) ],
                                src_len, dst_buf_size, RawBlockFuel)
         IN IF st.at = "fail" THEN U32(0)
            ELSE RawAdlerSize(st.dst_ofs, dst_buf_size, 0)

\* The stored blocks of pSrc from src_ofs on: a 5-byte header (final flag,
\* LEN, NLEN little-endian) and the block's bytes.
RECURSIVE RawBlocks(_, _)
RawBlocks(pSrc, src_ofs) ==
    IF src_ofs >= Len(pSrc) THEN << >>
    ELSE LET src_remaining == Len(pSrc) - src_ofs
             block_size == Min(UINT16_MAX, src_remaining)
             final_block == (block_size = src_remaining)
             nlen == 65535 - block_size
         IN << IF final_block THEN 1 ELSE 0,
               block_size % 256, (block_size \div 256) % 256,
               nlen % 256, (nlen \div 256) % 256 >>
            \o Slice(pSrc, src_ofs, block_size)
            \o RawBlocks(pSrc, src_ofs + block_size)

\* A stored-block writer that leaves out the Adler-32 after the blocks.
WriteRawNoAdler(pSrc, dst_buf_size) == << 120, 1 >> \o RawBlocks(pSrc, 0)

\* write_raw_block(pSrc, src_len, pDst, dst_buf_size): the bytes written
\* (their number is the value returned), or the empty sequence when the
\* function returns 0.
write_raw_block(pSrc, dst_buf_size) ==
    IF UIsZero(write_raw_block_size(U32(Len(pSrc)), dst_buf_size)) THEN << >>
    ELSE << 120, 1 >> \o RawBlocks(pSrc, 0)
         \o AdlerBE(fpng_adler32(<< FPNG_ADLER32_INIT, 0 >>, pSrc, 0, Len(pSrc)))

s_color_type == << 0, 0, 4, 2, 6 >>

\* A 32-bit value, most significant byte first.
BE32(v) == Reverse(v)

\* pnghdr[58] with the IHDR CRC filled in.  The width and height fields
\* are 0, 0, (uint8_t)(w >> 8), (uint8_t)w.
PngHeader(w, h, num_chans, idat_len) ==
    LET ihdr == << 73, 72, 68, 82,
                   0, 0, (w \div 256) % 256, w % 256,
                   0, 0, (h \div 256) % 256, h % 256,
                   8, At(s_color_type, num_chans), 0, 0, 0 >>
    IN << 137, 80, 78, 71, 13, 10, 26, 10 >>
       \o << 0, 0, 0, 13 >> \o ihdr
       \o BE32(fpng_crc32(U32(FPNG_CRC32_INIT), ihdr, 0, 17))
       \o << 0, 0, 0, 5, 102, 100, 69, 67, 82, 36, 147, 227, FPNG_FDEC_VERSION,
             229, 171, 98, 153 >>
       \o BE32(idat_len) \o << 73, 68, 65, 84 >>

\* The finished file for the zlib stream written at out_ofs: header,
\* stream, the IDAT CRC over type and stream, and the IEND chunk.
PngFile(w, h, num_chans, zlib) ==
    LET idat == << 73, 68, 65, 84 >> \o zlib
    IN SubSeq(PngHeader(w, h, num_chans, U32(Len(zlib))), 1, PNG_HEADER_SIZE - 4)
       \o idat
       \o BE32(fpng_crc32(U32(FPNG_CRC32_INIT), idat, 0, Len(idat)))
       \o << 0, 0, 0, 0, 73, 69, 78, 68, 174, 66, 96, 130 >>

\* What fpng_encode_image_to_memory leaves when it returns false; temp_buf
\* names the filtered scanlines that were compressed into out_buf.
EncodeFail == [ ok |-> FALSE, out_buf |-> << >>, temp_buf |-> << >> ]

\* The rows of the image filtered for the coder: filter 0 for row 0 and
\* filter 2 for the rows after it.
EncodeFilter(pImage, w, h, num_chans) == FilterRows(2, num_chans, w * num_chans, pImage, 0, h)

\* A second filtering that keeps filter 2 for the rows after the first.
EncodeRefilterUp(pImage, w, h, num_chans) ==
    FilterRows(2, num_chans, w * num_chans, pImage, 0, h)

\* The rows of the image filtered again for the stored blocks.
EncodeRefilter(pImage, w, h, num_chans) == FilterRows(0, num_chans, w * num_chans, pImage, 0, h)

\* defl_size and the bytes the coder chosen by the flags and the channel
\* count wrote; defl_size stays 0 when no coder is run.  The four coders
\* are the two-pass and the one-pass coder for 3 and for 4 channels
\* (pixel_deflate_dyn_3_rle, pixel_deflate_dyn_4_rle and the two with
\* _one_pass).
EncodeDeflate(temp_buf, w, h, num_chans, flags, dst_buf_size) ==
    IF "FPNG_FORCE_UNCOMPRESSED" \in flags THEN << >>
    ELSE The({ IF coded.ok THEN coded.dst ELSE << >> :
               coded \in { IF "FPNG_ENCODE_SLOWER" \in flags
                           THEN PixelDeflateTwoPass(temp_buf, w, h, num_chans, dst_buf_size)
                           ELSE PixelDeflateOnePass(
                                    temp_buf, w, h, num_chans, dst_buf_size,
                                    IF num_chans = 3 THEN g_dyn_huff_3 ELSE g_dyn_huff_4,
                                    IF num_chans = 3 THEN DYN_HUFF_3_BITBUF
                                    ELSE DYN_HUFF_4_BITBUF,
                                    IF num_chans = 3 THEN DYN_HUFF_3_BITBUF_SIZE
                                    ELSE DYN_HUFF_4_BITBUF_SIZE,
                                    IF num_chans = 3 THEN g_dyn_huff_3_codes
                                    ELSE g_dyn_huff_4_codes) } })

\* The branch taken when defl_size is 0: filter 0 for every row, and the
\* rows stored.
EncodeFallback(pImage, w, h, num_chans) ==
    The({ The({ IF raw = << >> THEN EncodeFail
                ELSE [ ok |-> TRUE, out_buf |-> PngFile(w, h, num_chans, raw),
                       temp_buf |-> temp_raw ] :
                raw \in { write_raw_block(temp_raw,
                                          USub(EncRawBufSize(U32(Len(temp_raw))),
                                               U32(PNG_HEADER_SIZE))) } }) :
          temp_raw \in { EncodeRefilter(pImage, w, h, num_chans) } })

\* fpng_encode_image_to_memory for an image whose buffer sizes do not
\* wrap: ok is the value returned and out_buf the file.
fpng_encode_image_to_memory(pImage, w, h, num_chans, flags) ==
    IF ~EncodeArgsValid(w, h, num_chans) THEN EncodeFail
    ELSE The({ The({ IF defl # << >>
                     THEN [ ok |-> TRUE, out_buf |-> PngFile(w, h, num_chans, defl),
                            temp_buf |-> temp_buf ]
                     ELSE EncodeFallback(pImage, w, h, num_chans) :
                     defl \in { EncodeDeflate(temp_buf, w, h, num_chans, flags,
                                    FromLE(USub(EncOutBufSize(w, h, num_chans),
                                                U32(PNG_HEADER_SIZE)))) } }) :
               temp_buf \in { EncodeFilter(pImage, w, h, num_chans) } })

\* ---------------------------------------------------------------------
\* The reader: stored blocks
\* ---------------------------------------------------------------------

\* A length the byte counters of the reader cannot reach: the value used
\* for a 32-bit length of 2^31 or more.
Unreachable == Pow2(30) + (Pow2(30) - 1)

\* One byte c of a stored block in fpng_pixel_zlib_raw_decompress.  The
\* state is the verdict so far, the position in the raster line, the
\* component within the pixel and the pixels written (dst_ofs is their
\* number).
RawByteStep(st, c, src_bpl, src_chans, dst_chans, dst_len) ==
    IF ~st.ok THEN st
    ELSE IF st.raster_ofs = 0
    THEN IF c # 0 THEN [st EXCEPT !.ok = FALSE]
         ELSE [st EXCEPT !.raster_ofs = IF 1 = src_bpl + 1 THEN 0 ELSE 1]
    ELSE LET copy == st.comp_ofs < dst_chans
             full1 == copy /\ Len(st.dst) = dst_len
             dst1 == IF copy THEN Append(st.dst, c) ELSE st.dst
             last == (st.comp_ofs + 1 = src_chans)
             pad == last /\ dst_chans > src_chans
             full2 == pad /\ Len(dst1) = dst_len
             dst2 == IF pad THEN Append(dst1, 255) ELSE dst1
         IN IF full1 \/ full2 THEN [st EXCEPT !.ok = FALSE]
            ELSE [ ok |-> TRUE,
                   raster_ofs |-> IF st.raster_ofs + 1 = src_bpl + 1 THEN 0
                                  ELSE st.raster_ofs + 1,
                   comp_ofs |-> IF last THEN 0 ELSE st.comp_ofs + 1,
                   dst |-> dst2 ]

\* for (i = 0; i < len; i++) over pSrc[src_ofs .. src_ofs + len - 1], one
\* half after the other.
RECURSIVE RawBytes(_, _, _, _, _, _, _, _)
RawBytes(st, pSrc, src_ofs, len, src_bpl, src_chans, dst_chans, dst_len) ==
    IF len = 0 \/ ~st.ok THEN st
    ELSE IF len = 1
    THEN RawByteStep(st, At(pSrc, src_ofs), src_bpl, src_chans, dst_chans, dst_len)
    ELSE LET half == len \div 2
             m == RawBytes(st, pSrc, src_ofs, half, src_bpl, src_chans, dst_chans, dst_len)
         IN IF m = m
            THEN RawBytes(m, pSrc, src_ofs + half, len - half,
                          src_bpl, src_chans, dst_chans, dst_len)
            ELSE m

\* The block loop of fpng_pixel_zlib_raw_decompress from src_ofs on.
RECURSIVE RawDecompressBlocks(_, _, _, _, _, _, _, _)
RawDecompressBlocks(st, pSrc, src_len, zlib_len, src_ofs, src_bpl, chans, dst_len) ==
    IF src_ofs + 1 > src_len THEN [st EXCEPT !.ok = FALSE]
    ELSE LET bfinal == (At(pSrc, src_ofs) % 2) # 0
             btype == (At(pSrc, src_ofs) \div 2) % 4
         IN IF btype # 0 THEN [st EXCEPT !.ok = FALSE]
            ELSE IF (src_ofs + 1) + 4 > src_len THEN [st EXCEPT !.ok = FALSE]
            ELSE LET len == At(pSrc, src_ofs + 1) + 256 * At(pSrc, src_ofs + 2)
                     nlen == At(pSrc, src_ofs + 3) + 256 * At(pSrc, src_ofs + 4)
                     data == src_ofs + 5
                 IN IF len # 65535 - nlen THEN [st EXCEPT !.ok = FALSE]
                    ELSE IF data + len > src_len THEN [st EXCEPT !.ok = FALSE]
                    ELSE LET m == RawBytes(st, pSrc, data, len, src_bpl,
                                           chans[1], chans[2], dst_len)
                         IN IF ~m.ok THEN m
                            ELSE IF ~bfinal
                            THEN RawDecompressBlocks(m, pSrc, src_len, zlib_len,
                                                     data + len, src_bpl, chans, dst_len)
                            ELSE IF m.comp_ofs # 0 THEN [m EXCEPT !.ok = FALSE]
                            ELSE IF (data + len) + 4 # zlib_len THEN [m EXCEPT !.ok = FALSE]
                            ELSE [m EXCEPT !.ok = (Len(m.dst) = dst_len)]

\* w * chans * h as the 32-bit product, as a byte counter can meet it.
DstLen(w, h, dst_chans) ==
    LET v == UMul(UMulSmall(w, dst_chans), h)
    IN IF FitsInt(v) THEN FromLE(v) ELSE Unreachable

\* fpng_pixel_zlib_raw_decompress: the verdict and the pixels written.
\* w and h are 32-bit values.
fpng_pixel_zlib_raw_decompress(pSrc, src_len, zlib_len, w, h, src_chans, dst_chans) ==
    LET src_bpl32 == UMulSmall(w, src_chans)
        src_bpl == IF FitsInt(src_bpl32) THEN FromLE(src_bpl32) ELSE Unreachable
        st == RawDecompressBlocks([ ok |-> TRUE, raster_ofs |-> 0, comp_ofs |-> 0,
                                    dst |-> << >> ],
                                  pSrc, src_len, zlib_len, 2, src_bpl,
                                  << src_chans, dst_chans >>, DstLen(w, h, dst_chans))
    IN [ ok |-> st.ok, dst |-> st.dst ]

\* ---------------------------------------------------------------------
\* The reader: dynamic blocks
\* ---------------------------------------------------------------------

FPNG_DECODER_TABLE_BITS == 12

FPNG_DECODER_TABLE_SIZE == 4096

s_length_extra ==
    << 0, 0, 0, 0, 0, 0, 0, 0, 1, 1, 1, 1, 2, 2, 2, 2, 3, 3, 3, 3, 4, 4, 4, 4,
       5, 5, 5, 5, 0, 0, 0 >>

s_length_range ==
    << 3, 4, 5, 6, 7, 8, 9, 10, 11, 13, 15, 17, 19, 23, 27, 31, 35, 43, 51, 59,
       67, 83, 99, 115, 131, 163, 195, 227, 258, 0, 0 >>

\* g_match_len_valid_3[run_len]: 1 for the multiples of 3 from 3 to 258.
g_match_len_valid_3 == [ i \in 1..259 |-> IF i > 1 /\ (i - 1) % 3 = 0 THEN 1 ELSE 0 ]

\* g_run_len3_to_4[run_len]: run_len / 3 * 4 for the multiples of 3 from
\* 3 to 258, 0 elsewhere.
g_run_len3_to_4 ==
    [ i \in 1..259 |-> IF i > 1 /\ (i - 1) % 3 = 0 THEN ((i - 1) \div 3) * 4 ELSE 0 ]

s_bit_length_order == << 16, 17, 18, 0, 8, 7, 9, 6, 10, 5, 11, 4, 12, 3, 13, 2, 14, 1, 15 >>

\* The reader's input state: ok is FALSE once the function returned
\* false, bits are the bits held in bit_buf (the least significant
\* first; bit_buf_size is their number), src_ofs the read offset.
ReaderInit(pSrc, src_ofs) ==
    [ ok |-> TRUE, src_ofs |-> src_ofs + 4,
      bits |-> [ i \in 1..32 |->
                   (At(pSrc, src_ofs + ((i - 1) \div 8)) \div Pow2((i - 1) % 8)) % 2 ] ]

\* The value of the low l bits of bit_buf.
LowBits(bits, l) ==
    LET bit(i) == IF i <= l /\ i <= Len(bits) THEN bits[i] * Pow2(i - 1) ELSE 0
    IN bit(1) + bit(2) + bit(3) + bit(4) + bit(5) + bit(6)
       + bit(7) + bit(8) + bit(9) + bit(10) + bit(11) + bit(12)

\* ENSURE_32BITS()
ENSURE_32BITS(R, pSrc, src_len) ==
    IF ~R.ok \/ ~(Len(R.bits) < 32) THEN R
    ELSE IF R.src_ofs + 4 > src_len THEN [ R EXCEPT !.ok = FALSE ]
    ELSE [ R EXCEPT !.bits = R.bits \o ReaderInit(pSrc, R.src_ofs).bits,
                    !.src_ofs = R.src_ofs + 4 ]

\* SKIP_BITS_NE(ll) and the shifts of GET_BITS_NE(b, ll); the value b is
\* LowBits of the state before.
SKIP_BITS_NE(R, ll) == IF ~R.ok THEN R ELSE [ R EXCEPT !.bits = DropBits(R.bits, ll) ]

\* SKIP_BITS(ll) and the shifts of GET_BITS(b, ll)
SKIP_BITS(R, ll, pSrc, src_len) == ENSURE_32BITS(SKIP_BITS_NE(R, ll), pSrc, src_len)

\* build_decoder_table(num_syms, pCode_sizes, pTable).  ok is the value
\* returned; used lists, in the order of the symbols, every symbol with a
\* code size, its code size and its code new_code with the bits reversed.
\* The table is read through TableEntry.
build_decoder_table(num_syms, pCode_sizes) ==
    LET num_codes == Iterate(LAMBDA s : [ i |-> s.i + 1,
                                          a |-> Incr(s.a, At(pCode_sizes, s.i)) ],
                             LAMBDA s : ~(s.i < num_syms),
                             [ i |-> 0, a |-> Zeros(16) ], LoopFuel).a
        nc == Iterate(LAMBDA s : LET total == (s.total + At(num_codes, s.i)) * 2
                                 IN [ i |-> s.i + 1, total |-> total,
                                      a |-> Put(s.a, s.i + 1, total) ],
                      LAMBDA s : ~(s.i <= 15),
                      [ i |-> 1, total |-> 0, a |-> Zeros(17) ], LoopFuel)
        coded == Iterate(LAMBDA s : [ i |-> s.i - 1, j |-> s.j + At(num_codes, s.i) ],
                         LAMBDA s : s.i = 0,
                         [ i |-> 15, j |-> 0 ], LoopFuel).j
        rev(old_code, code_size) ==
            Iterate(LAMBDA s : [ j |-> s.j - 1, old_code |-> s.old_code \div 2,
                                 new_code |-> s.new_code * 2 + (s.old_code % 2) ],
                    LAMBDA s : s.j = 0,
                    [ j |-> code_size, old_code |-> old_code, new_code |-> 0 ],
                    LoopFuel).new_code
        used == Iterate(LAMBDA s :
                          LET code_size == At(pCode_sizes, s.i)
                              rev_code == At(s.next_code, code_size)
                          IN [ i |-> s.i + 1,
                               next_code |-> Put(s.next_code, code_size, rev_code + 1),
                               used |-> IF code_size = 0 THEN s.used
                                        ELSE Append(s.used,
                                                    [ sym |-> s.i, code_size |-> code_size,
                                                      new_code |-> rev(rev_code, code_size) ]) ],
                        LAMBDA s : ~(s.i < num_syms),
                        [ i |-> 0, next_code |-> nc.a, used |-> << >> ], LoopFuel).used
    IN IF num_codes = num_codes /\ nc = nc
       THEN [ ok |-> nc.total = 65536 \/ coded = 1, used |-> used ]
       ELSE [ ok |-> FALSE, used |-> << >> ]

\* pTable[idx] as build_decoder_table leaves it: i | (code_size << 9) for
\* the last symbol i whose code fills the entry (new_code, new_code + (1
\* << code_size), ... below the table size), 0 when no symbol does.
TableEntry(used, idx) ==
    LET hits == { k \in 1..Len(used) :
                    /\ used[k].new_code < FPNG_DECODER_TABLE_SIZE
                    /\ idx % Pow2(used[k].code_size) = used[k].new_code }
        last == CHOOSE k \in hits : \A j \in hits : j <= k
    IN IF hits = {} THEN 0 ELSE used[last].sym + used[last].code_size * 512

\* The next symbol added to every literal, whether it fits or not.
LitTableEntryAlwaysChained(T, idx) ==
    LET e == TableEntry(T.used, idx)
        next == TableEntry(T.used, idx \div Pow2((e \div 512) % 16))
    IN IF e % 512 >= 256 \/ (e \div 512) % 16 = 0 \/ (next \div 512) % 16 = 0 THEN e
       ELSE e + (next % 512) * 65536 + ((next \div 512) % 16) * 33554432

\* pLit_table[idx] after the closing loop of prepare_dynamic_block, which
\* adds to the entry of a literal the symbol that follows it when both
\* fit into the index: (next_sym << 16) | (next_sym_bits << (16 + 9)).
\* The code sizes of the table are at most FPNG_DECODER_TABLE_BITS.
LitTableEntry(T, idx) ==
    LET e == TableEntry(T.used, idx)
        sym == e % 512
        sym_bits == (e \div 512) % 16
        bits_left == FPNG_DECODER_TABLE_BITS - sym_bits
        next == TableEntry(T.used, idx \div Pow2(sym_bits))
        next_sym == next % 512
        next_sym_bits == (next \div 512) % 16
    IN IF sym >= 256 \/ sym_bits = 0 \/ bits_left < T.min_code_size THEN e
       ELSE IF next_sym_bits = 0 \/ bits_left < next_sym_bits THEN e
       ELSE e + next_sym * 65536 + next_sym_bits * 33554432

\* One turn of the loop of prepare_dynamic_block that reads the code
\* sizes; cur_code is the number of code sizes read.
ReadCodeSize(s, clen, total_codes, pSrc, src_len) ==
    LET e == TableEntry(clen, LowBits(s.R.bits, FPNG_DECODER_TABLE_BITS))
        sym_len == e \div 512
        sym == e % 512
        R1 == SKIP_BITS(s.R, sym_len, pSrc, src_len)
        cur_code == Len(s.code_sizes)
        extra == IF sym = 16 THEN 2 ELSE IF sym = 17 THEN 3 ELSE 7
        rep_len == LowBits(R1.bits, extra) + (IF sym = 18 THEN 11 ELSE 3)
        R2 == SKIP_BITS(R1, extra, pSrc, src_len)
        rep_code_size == IF sym = 16 THEN At(s.code_sizes, cur_code - 1) ELSE 0
        fail == [ s EXCEPT !.ok = FALSE ]
    IN IF sym_len = 0 \/ ~R1.ok THEN fail
       ELSE IF sym <= 15
       THEN IF sym > FPNG_DECODER_TABLE_BITS THEN fail
            ELSE [ ok |-> TRUE, R |-> R1,
                   min_code_size |-> IF sym # 0 THEN Min(s.min_code_size, sym)
                                     ELSE s.min_code_size,
                   code_sizes |-> Append(s.code_sizes, sym) ]
       ELSE IF ~R2.ok \/ (sym = 16 /\ cur_code = 0) THEN fail
       ELSE IF cur_code + rep_len > total_codes THEN fail
       ELSE [ s EXCEPT !.R = R2,
                       !.code_sizes = s.code_sizes \o Repeat(rep_code_size, rep_len) ]

\* GET_BITS(b, ll): the ll low bits of the bit buffer and the reader
\* state after SKIP_BITS(ll).
GET_BITS(R, ll, pSrc, src_len) ==
    [ b |-> LowBits(R.bits, ll), R |-> SKIP_BITS(R, ll, pSrc, src_len) ]

\* The code sizes of the code length codes, 3 bits each in the order of
\* s_bit_length_order, and the reader state after them.
ReadCodeLengthSizes(pSrc, src_len, R3, num_clen_codes) ==
    Iterate(LAMBDA s : [ i |-> s.i + 1,
                         R |-> SKIP_BITS(s.R, 3, pSrc, src_len),
                         a |-> Put(s.a, At(s_bit_length_order, s.i), LowBits(s.R.bits, 3)) ],
            LAMBDA s : ~(s.i < num_clen_codes) \/ ~s.R.ok,
            [ i |-> 0, R |-> R3, a |-> Zeros(DEFL_MAX_HUFF_SYMBOLS_2) ], LoopFuel)

\* The code sizes of the literal and distance codes, read from R on
\* through the code length table.
ReadCodeSizes(pSrc, src_len, R, clen_used, total_codes) ==
    Iterate(LAMBDA s : ReadCodeSize(s, clen_used, total_codes, pSrc, src_len),
            LAMBDA s : ~s.ok \/ ~(Len(s.code_sizes) < total_codes),
            [ ok |-> TRUE, R |-> R, min_code_size |-> 15, code_sizes |-> << >> ],
            LoopFuel)

\* One distance code whatever the code sizes are.
AlwaysOneDistCode(code_sizes, num_lit_codes, num_dist_codes) == 1

\* The sum of the code sizes of the distance codes.
TotalValidDistCodes(code_sizes, num_lit_codes, num_dist_codes) ==
    Iterate(LAMBDA s : [ i |-> s.i + 1, t |-> s.t + At(code_sizes, num_lit_codes + s.i) ],
            LAMBDA s : ~(s.i < num_dist_codes),
            [ i |-> 0, t |-> 0 ], LoopFuel).t

PrepareFail(R0) ==
    [ ok |-> FALSE, R |-> R0, T |-> [ used |-> << >>, min_code_size |-> 15 ] ]

\* prepare_dynamic_block after the three counts: R3 is the reader state
\* after them.
PrepareTables(pSrc, src_len, R0, R3, num_lit_codes, num_dist_codes, num_clen_codes,
              num_chans) ==
    The({ IF ~cl.R.ok THEN PrepareFail(R0)
          ELSE The({
            IF ~clen_table.ok THEN PrepareFail(R0)
            ELSE The({
              IF ~cs.ok THEN PrepareFail(R0)
              ELSE IF TotalValidDistCodes(cs.code_sizes, num_lit_codes, num_dist_codes) # 1
              THEN PrepareFail(R0)
              ELSE IF At(cs.code_sizes, num_lit_codes + (num_chans - 1)) # 1
              THEN PrepareFail(R0)
              ELSE The({
                IF ~lit_table.ok THEN PrepareFail(R0)
                ELSE [ ok |-> TRUE, R |-> cs.R,
                       T |-> [ used |-> lit_table.used,
                               min_code_size |-> cs.min_code_size ] ] :
                  lit_table \in { build_decoder_table(
                                      num_lit_codes,
                                      SubSeq(cs.code_sizes, 1, num_lit_codes)) } }) :
                cs \in { ReadCodeSizes(pSrc, src_len, cl.R, clen_table.used,
                                       num_lit_codes + num_dist_codes) } }) :
              clen_table \in { build_decoder_table(DEFL_MAX_HUFF_SYMBOLS_2, cl.a) } }) :
            cl \in { ReadCodeLengthSizes(pSrc, src_len, R3, num_clen_codes) } })

\* prepare_dynamic_block from the reader state R0: ok is the value
\* returned, R the reader state after the block header and T the literal
\* table (read through LitTableEntry).
prepare_dynamic_block(pSrc, src_len, R0, num_chans) ==
    The({ IF ~lit.R.ok THEN PrepareFail(R0)
          ELSE The({
            IF ~dist.R.ok \/ dist.b + 1 # num_chans THEN PrepareFail(R0)
            ELSE IF (lit.b + 257) + (dist.b + 1)
                        > DEFL_MAX_HUFF_SYMBOLS_0 + DEFL_MAX_HUFF_SYMBOLS_1
            THEN PrepareFail(R0)
            ELSE The({
              IF ~clen.R.ok THEN PrepareFail(R0)
              ELSE PrepareTables(pSrc, src_len, R0, clen.R, lit.b + 257, dist.b + 1,
                                 clen.b + 4, num_chans) :
                clen \in { GET_BITS(dist.R, 4, pSrc, src_len) } }) :
              dist \in { GET_BITS(lit.R, 5, pSrc, src_len) } }) :
            lit \in { GET_BITS(R0, 5, pSrc, src_len) } })

\* lit_table[bit_buf & (FPNG_DECODER_TABLE_SIZE - 1)]
Lit(T, R) == LitTableEntry(T, LowBits(R.bits, FPNG_DECODER_TABLE_BITS))

EntryLen(e) == (e \div 512) % 16

EntryIsMatch(e) == (e \div 256) % 2 = 1

\* The pixel stored at x_ofs = Len(cur): deltas added to the pixel above
\* in prev_row when there is one, alpha 0xFF when the file has none.
StorePixel(cur, prev_row, deltas, dst_comps) ==
    cur \o [ c \in 1..dst_comps |->
               IF c > Len(deltas) THEN 255
               ELSE IF prev_row # << >>
               THEN (prev_row[Len(cur) + c] + deltas[c]) % 256
               ELSE deltas[c] % 256 ]

\* The pixels of a run up to x_ofs_end: copied from prev_row when all
\* deltas are zero, else stored one by one, at least one.
StoreRun(cur, prev_row, deltas, x_ofs_end, dst_comps) ==
    IF prev_row # << >> /\ \A c \in 1..Len(deltas) : deltas[c] = 0
    THEN cur \o SubSeq(prev_row, Len(cur) + 1, x_ofs_end)
    ELSE Iterate(LAMBDA c : StorePixel(c, prev_row, deltas, dst_comps),
                 LAMBDA c : ~(Len(c) < x_ofs_end),
                 StorePixel(cur, prev_row, deltas, dst_comps), LoopFuel)

\* The symbol that follows in the table entry e, and its length.
SpecSym(e) == e \div 65536

SpecLen(e) == e \div 33554432

\* The second and third literal of a pixel after the first, lit0_tab, was
\* taken from the table and its bits skipped (reader state R1): lit1
\* comes with lit0_tab when the table holds it there, lit2 with lit1
\* likewise.  R is the state before the bits of lit2 are skipped.
NextTwoLits(T, R1, lit0_tab) ==
    IF SpecLen(lit0_tab) # 0
    THEN The({ [ ok |-> EntryLen(lit2) # 0, R |-> Ra, lit1 |-> SpecSym(lit0_tab) % 512,
                 lit2 |-> lit2, lit2_len |-> EntryLen(lit2) ] :
               Ra \in { SKIP_BITS_NE(R1, SpecLen(lit0_tab)) },
               lit2 \in { Lit(T, SKIP_BITS_NE(R1, SpecLen(lit0_tab))) } })
    ELSE The({
           IF EntryLen(lit1) = 0
           THEN [ ok |-> FALSE, R |-> R1, lit1 |-> lit1, lit2 |-> 0, lit2_len |-> 0 ]
           ELSE IF SpecLen(lit1) # 0
           THEN [ ok |-> TRUE, R |-> SKIP_BITS_NE(R1, EntryLen(lit1)), lit1 |-> lit1,
                  lit2 |-> SpecSym(lit1), lit2_len |-> SpecLen(lit1) ]
           ELSE The({ [ ok |-> EntryLen(lit2) # 0, R |-> SKIP_BITS_NE(R1, EntryLen(lit1)),
                        lit1 |-> lit1, lit2 |-> lit2, lit2_len |-> EntryLen(lit2) ] :
                      lit2 \in { Lit(T, SKIP_BITS_NE(R1, EntryLen(lit1))) } }) :
             lit1 \in { Lit(T, R1) } })

\* The length of the run of the length symbol lit0 and the reader state
\* after its extra bits and the one bit of the distance.
RunLength(R1, lit0) ==
    LET extra == IF lit0 >= 265 THEN At(s_length_extra, lit0 - 257) ELSE 0
    IN [ run_len |-> At(s_length_range, lit0 - 257) + LowBits(R1.bits, extra),
         R |-> SKIP_BITS_NE(SKIP_BITS_NE(R1, extra), 1) ]

DecodeFail(s) == [ s EXCEPT !.ok = FALSE ]

\* The run branch without the test that keeps a run inside the scanline.
DecodeRun3Unchecked(dst_comps, dst_bpl, prev_row, s, R1, lit0) ==
    IF lit0 = 256 THEN DecodeFail(s)
    ELSE The({
           IF At(g_match_len_valid_3, run.run_len) = 0 THEN DecodeFail(s)
           ELSE [ s EXCEPT !.R = run.R,
                           !.cur = StoreRun(s.cur, << >>, s.prev_delta,
                                            Len(s.cur) + (run.run_len \div 3) * dst_comps,
                                            dst_comps) ] :
             run \in { RunLength(R1, lit0) } })

\* The run branch of the pixel loop of fpng_pixel_zlib_decompress_3.
DecodeRun3(dst_comps, dst_bpl, prev_row, s, R1, lit0) ==
    IF lit0 = 256 THEN DecodeFail(s)
    ELSE The({
           IF IF dst_comps = 4 THEN At(g_run_len3_to_4, run.run_len) = 0
              ELSE At(g_match_len_valid_3, run.run_len) = 0
           THEN DecodeFail(s)
           ELSE IF Len(s.cur) + (IF dst_comps = 4 THEN At(g_run_len3_to_4, run.run_len)
                                 ELSE run.run_len) > dst_bpl
           THEN DecodeFail(s)
           ELSE [ s EXCEPT !.R = run.R,
                           !.cur = StoreRun(s.cur, prev_row, s.prev_delta,
                                            Len(s.cur)
                                            + (IF dst_comps = 4
                                               THEN At(g_run_len3_to_4, run.run_len)
                                               ELSE run.run_len),
                                            dst_comps) ] :
             run \in { RunLength(R1, lit0) } })

\* One more pixel, when the table holds its first literal next_lit0 with
\* lit2 of the pixel before; R4 is the reader state after next_lit0.
DecodeNext3(T, pSrc, src_len, dst_comps, prev_row, s, cur1, R4, next_lit0) ==
    The({
      IF EntryLen(lit1) = 0 THEN DecodeFail(s)
      ELSE The({
        IF ~R5.ok THEN DecodeFail(s)
        ELSE The({
          IF (IF SpecLen(lit1) # 0 THEN SpecLen(lit1) ELSE EntryLen(lit2)) = 0
          THEN DecodeFail(s)
          ELSE IF EntryIsMatch(lit1) \/ EntryIsMatch(lit2) THEN DecodeFail(s)
          ELSE [ ok |-> TRUE,
                 R |-> SKIP_BITS_NE(R5, IF SpecLen(lit1) # 0 THEN SpecLen(lit1)
                                        ELSE EntryLen(lit2)),
                 cur |-> StorePixel(cur1, prev_row,
                                    << next_lit0 % 256, lit1 % 256, lit2 % 256 >>, dst_comps),
                 prev_delta |-> << next_lit0 % 256, lit1 % 256, lit2 % 256 >> ] :
            lit2 \in { IF SpecLen(lit1) # 0 THEN SpecSym(lit1) ELSE Lit(T, R5) } }) :
          R5 \in { SKIP_BITS(R4, EntryLen(lit1), pSrc, src_len) } }) :
        lit1 \in { Lit(T, R4) } })

\* The literal branch of the pixel loop of fpng_pixel_zlib_decompress_3.
DecodeLits3(T, pSrc, src_len, dst_comps, dst_bpl, prev_row, s, R1, lit0_tab) ==
    The({
      IF ~n.ok THEN DecodeFail(s)
      ELSE The({
        IF ~R3.ok THEN DecodeFail(s)
        ELSE IF EntryIsMatch(n.lit1) \/ EntryIsMatch(n.lit2) THEN DecodeFail(s)
        ELSE The({
          IF SpecLen(n.lit2) # 0 /\ Len(cur1) < dst_bpl /\ SpecSym(n.lit2) % 512 < 256
          THEN DecodeNext3(T, pSrc, src_len, dst_comps, prev_row, s, cur1,
                           SKIP_BITS_NE(R3, SpecLen(n.lit2)), SpecSym(n.lit2) % 512)
          ELSE [ ok |-> TRUE, R |-> R3, cur |-> cur1,
                 prev_delta |-> << lit0_tab % 256, n.lit1 % 256, n.lit2 % 256 >> ] :
            cur1 \in { StorePixel(s.cur, prev_row,
                                  << lit0_tab % 256, n.lit1 % 256, n.lit2 % 256 >>,
                                  dst_comps) } }) :
          R3 \in { SKIP_BITS(n.R, n.lit2_len, pSrc, src_len) } }) :
        n \in { NextTwoLits(T, R1, lit0_tab) } })

\* One turn of the pixel loop of fpng_pixel_zlib_decompress_3: cur is the
\* scanline filled so far (x_ofs is its length).
DecodeStep3(T, pSrc, src_len, dst_comps, dst_bpl, prev_row, s) ==
    The({
      IF EntryLen(lit0_tab) = 0 THEN DecodeFail(s)
      ELSE The({
        IF ~R1.ok THEN DecodeFail(s)
        ELSE IF EntryIsMatch(lit0_tab)
        THEN DecodeRun3(dst_comps, dst_bpl, prev_row, s, R1, lit0_tab % 512)
        ELSE DecodeLits3(T, pSrc, src_len, dst_comps, dst_bpl, prev_row, s, R1, lit0_tab) :
          R1 \in { SKIP_BITS(s.R, EntryLen(lit0_tab), pSrc, src_len) } }) :
        lit0_tab \in { Lit(T, s.R) } })

\* The run branch of the pixel loop of fpng_pixel_zlib_decompress_4.
DecodeRun4(dst_comps, dst_bpl, prev_row, s, R1, lit0) ==
    IF lit0 = 256 THEN DecodeFail(s)
    ELSE The({
           IF run.run_len % 4 # 0 THEN DecodeFail(s)
           ELSE IF Len(s.cur) + (IF dst_comps = 3 THEN (run.run_len \div 4) * 3
                                 ELSE run.run_len) > dst_bpl
           THEN DecodeFail(s)
           ELSE [ s EXCEPT !.R = run.R,
                           !.cur = StoreRun(s.cur, prev_row, s.prev_delta,
                                            Len(s.cur)
                                            + (IF dst_comps = 3
                                               THEN (run.run_len \div 4) * 3
                                               ELSE run.run_len),
                                            dst_comps) ] :
             run \in { RunLength(R1, lit0) } })

\* The fourth literal of a pixel: it comes with lit2 when the table holds
\* it there.  n is the result of NextTwoLits.
FourthLit(T, pSrc, src_len, n) ==
    IF SpecLen(n.lit2) # 0
    THEN The({ [ ok |-> Ra.ok, lit3 |-> SpecSym(n.lit2), R |-> Ra ] :
               Ra \in { SKIP_BITS(n.R, n.lit2_len + SpecLen(n.lit2), pSrc, src_len) } })
    ELSE The({ IF ~Rb.ok THEN [ ok |-> FALSE, lit3 |-> 0, R |-> Rb ]
               ELSE The({ [ ok |-> EntryLen(lit3) # 0, lit3 |-> lit3,
                            R |-> SKIP_BITS_NE(Rb, EntryLen(lit3)) ] :
                          lit3 \in { Lit(T, Rb) } }) :
               Rb \in { SKIP_BITS(n.R, n.lit2_len, pSrc, src_len) } })

\* The literal branch of the pixel loop of fpng_pixel_zlib_decompress_4.
DecodeLits4(T, pSrc, src_len, dst_comps, prev_row, s, R1, lit0_tab) ==
    The({
      IF ~n.ok THEN DecodeFail(s)
      ELSE The({
        IF ~f.ok THEN DecodeFail(s)
        ELSE IF EntryIsMatch(n.lit1) \/ EntryIsMatch(n.lit2) \/ EntryIsMatch(f.lit3)
        THEN DecodeFail(s)
        ELSE [ ok |-> TRUE, R |-> f.R,
               prev_delta |-> << lit0_tab % 256, n.lit1 % 256, n.lit2 % 256,
                                 f.lit3 % 256 >>,
               cur |-> StorePixel(s.cur, prev_row,
                                  << lit0_tab % 256, n.lit1 % 256, n.lit2 % 256,
                                     f.lit3 % 256 >>, dst_comps) ] :
          f \in { FourthLit(T, pSrc, src_len, n) } }) :
        n \in { NextTwoLits(T, R1, lit0_tab) } })

\* One turn of the pixel loop of fpng_pixel_zlib_decompress_4.
DecodeStep4(T, pSrc, src_len, dst_comps, dst_bpl, prev_row, s) ==
    The({
      IF EntryLen(lit0_tab) = 0 THEN DecodeFail(s)
      ELSE The({
        IF ~R1.ok THEN DecodeFail(s)
        ELSE IF EntryIsMatch(lit0_tab)
        THEN DecodeRun4(dst_comps, dst_bpl, prev_row, s, R1, lit0_tab % 512)
        ELSE DecodeLits4(T, pSrc, src_len, dst_comps, prev_row, s, R1, lit0_tab) :
          R1 \in { SKIP_BITS(s.R, EntryLen(lit0_tab), pSrc, src_len) } }) :
        lit0_tab \in { Lit(T, s.R) } })

\* The pixel loop of one scanline, from the reader state R1 on until the
\* scanline is full.
DecodeStep(T, pSrc, src_len, src_chans, dst_comps, dst_bpl, prev_row, s) ==
    IF src_chans = 3
    THEN DecodeStep3(T, pSrc, src_len, dst_comps, dst_bpl, prev_row, s)
    ELSE DecodeStep4(T, pSrc, src_len, dst_comps, dst_bpl, prev_row, s)

DecodePixels(T, pSrc, src_len, src_chans, dst_comps, dst_bpl, prev_row, R1) ==
    Iterate(LAMBDA s : DecodeStep(T, pSrc, src_len, src_chans, dst_comps, dst_bpl,
                                  prev_row, s),
            LAMBDA s : ~s.ok \/ ~(Len(s.cur) < dst_bpl),
            DecodeStep(T, pSrc, src_len, src_chans, dst_comps, dst_bpl, prev_row,
                       [ ok |-> TRUE, R |-> R1, cur |-> << >>,
                         prev_delta |-> Zeros(src_chans) ]),
            LoopFuel)

\* The head of the loop without SKIP_BITS: the bits of the filter literal
\* stay in bit_buf.
DecodeRowStartNoSkip(T, pSrc, src_len, src_chans, y, R) ==
    [ ok |-> EntryLen(Lit(T, R)) # 0 /\ Lit(T, R) % 512 = (IF y # 0 THEN 2 ELSE 0),
      R |-> R, cur |-> << >>, prev_delta |-> Zeros(src_chans) ]

\* The head of the loop over the scanlines: the filter literal of
\* scanline y and the state the pixel loop starts from.
DecodeRowStart(T, pSrc, src_len, src_chans, y, R) ==
    LET start(R1, ok) == [ ok |-> ok, R |-> R1, cur |-> << >>,
                           prev_delta |-> Zeros(src_chans) ]
    IN The({
         IF EntryLen(filter) = 0 THEN start(R, FALSE)
         ELSE The({
           IF ~R1.ok THEN start(R, FALSE)
           ELSE IF filter % 512 # (IF y # 0 THEN 2 ELSE 0) THEN start(R, FALSE)
           ELSE start(R1, TRUE) :
             R1 \in { SKIP_BITS(R, EntryLen(filter), pSrc, src_len) } }) :
           filter \in { Lit(T, R) } })

\* One scanline y of the dynamic-block reader: the filter literal, then
\* the pixel loop until the scanline is full.  dst holds the scanlines
\* written so far.
DecodeRow(T, pSrc, src_len, src_chans, dst_comps, dst_bpl, st) ==
    The({
      IF ~head.ok THEN DecodeFail(st)
      ELSE The({
        IF ~row.ok THEN DecodeFail(st)
        ELSE [ ok |-> TRUE, R |-> row.R, y |-> st.y + 1, dst |-> st.dst \o row.cur ] :
          row \in { DecodePixels(T, pSrc, src_len, src_chans, dst_comps, dst_bpl,
                                 IF st.y = 0 THEN << >>
                                 ELSE Slice(st.dst, (st.y - 1) * dst_bpl, dst_bpl),
                                 head.R) } }) :
        head \in { DecodeRowStart(T, pSrc, src_len, src_chans, st.y, st.R) } })

\* An end of the block that accepts whatever follows the last scanline.
DecodeEndAlwaysOk(T, R, zlib_len) == TRUE

\* The end of the block: the next symbol is the end of block, and after
\* the bits up to the byte boundary and the bytes read ahead are given
\* back, 4 bytes of the zlib stream are left.
DecodeEnd(T, R, zlib_len) ==
    LET lit0 == Lit(T, R)
        bit_buf_size == Len(R.bits) - EntryLen(lit0)
        read_ahead == (bit_buf_size - (bit_buf_size % 8)) \div 8
    IN /\ EntryLen(lit0) # 0
       /\ lit0 % 512 = 256
       /\ ~(R.src_ofs < read_ahead)
       /\ (R.src_ofs - read_ahead) + 4 = zlib_len

\* The scanlines of the block with the table T, from the reader state R.
DecodeRows(T, R, pSrc, src_len, src_chans, dst_comps, dst_bpl, rows) ==
    Iterate(LAMBDA s : DecodeRow(T, pSrc, src_len, src_chans, dst_comps, dst_bpl, s),
            LAMBDA s : ~s.ok \/ ~(s.y < rows),
            [ ok |-> TRUE, R |-> R, y |-> 0, dst |-> << >> ], LoopFuel)

\* The dynamic block of the stream: its header, its scanlines, its end.
DecodeBlock(pSrc, src_len, zlib_len, src_chans, dst_comps, dst_bpl, rows, R2) ==
    The({
      IF ~blk.ok THEN [ ok |-> FALSE, dst |-> << >> ]
      ELSE The({
        IF ~st.ok THEN [ ok |-> FALSE, dst |-> << >> ]
        ELSE IF ~DecodeEnd(blk.T, st.R, zlib_len) THEN [ ok |-> FALSE, dst |-> << >> ]
        ELSE [ ok |-> TRUE, dst |-> st.dst ] :
          st \in { DecodeRows(blk.T, blk.R, pSrc, src_len, src_chans, dst_comps,
                              dst_bpl, rows) } }) :
        blk \in { prepare_dynamic_block(pSrc, src_len, R2, src_chans) } })

\* fpng_pixel_zlib_decompress_3<dst_comps> and
\* fpng_pixel_zlib_decompress_4<dst_comps>, src_chans being 3 or 4: the
\* value returned and the pixels written.  w and h are 32-bit values.
PixelZlibDecompress(pSrc, src_len, zlib_len, w, h, src_chans, dst_comps) ==
    IF zlib_len < 7 THEN [ ok |-> FALSE, dst |-> << >> ]
    ELSE IF At(pSrc, 0) # 120 \/ At(pSrc, 1) # 1 THEN [ ok |-> FALSE, dst |-> << >> ]
    ELSE IF (At(pSrc, 2) \div 2) % 4 = 0
    THEN fpng_pixel_zlib_raw_decompress(pSrc, src_len, zlib_len, w, h, src_chans, dst_comps)
    ELSE IF 2 + 4 > src_len THEN [ ok |-> FALSE, dst |-> << >> ]
    ELSE The({
      IF ~bfinal.R.ok THEN [ ok |-> FALSE, dst |-> << >> ]
      ELSE The({
        IF ~btype.R.ok THEN [ ok |-> FALSE, dst |-> << >> ]
        ELSE IF bfinal.b # 1 \/ btype.b # 2 THEN [ ok |-> FALSE, dst |-> << >> ]
        ELSE DecodeBlock(pSrc, src_len, zlib_len, src_chans, dst_comps,
                         IF FitsInt(UMulSmall(w, dst_comps))
                         THEN FromLE(UMulSmall(w, dst_comps)) ELSE Unreachable,
                         IF FitsInt(h) THEN FromLE(h) ELSE Unreachable,
                         btype.R) :
          btype \in { GET_BITS(bfinal.R, 2, pSrc, src_len) } }) :
        bfinal \in { GET_BITS(ReaderInit(pSrc, 2), 1, pSrc, src_len) } })

fpng_pixel_zlib_decompress_3(pSrc, src_len, zlib_len, w, h, dst_comps) ==
    PixelZlibDecompress(pSrc, src_len, zlib_len, w, h, 3, dst_comps)

fpng_pixel_zlib_decompress_4(pSrc, src_len, zlib_len, w, h, dst_comps) ==
    PixelZlibDecompress(pSrc, src_len, zlib_len, w, h, 4, dst_comps)

\* ---------------------------------------------------------------------
\* The reader: the PNG envelope
\* ---------------------------------------------------------------------

s_png_sig == << 137, 80, 78, 71, 13, 10, 26, 10 >>

IHDR_EXPECTED_LENGTH == 13

\* sizeof(s_png_sig) + sizeof(png_ihdr) + sizeof(png_chunk_prefix) + 1
\*   + sizeof(uint32_t) + sizeof(png_iend)
MinImageSize == 8 + 25 + 8 + 1 + 4 + 12

\* The byte at offset i of the image; an offset at or past image_size
\* reads past, the bytes that happen to follow the image in memory.
Mem(pImage, past, i) ==
    IF i < Len(pImage) THEN At(pImage, i) ELSE At(past, i - Len(pImage))

\* READ_BE32(pImage + ofs), as a 32-bit value.
READ_BE32(pImage, past, ofs) ==
    << Mem(pImage, past, ofs + 3), Mem(pImage, past, ofs + 2),
       Mem(pImage, past, ofs + 1), Mem(pImage, past, ofs) >>

IsLetter(c) == (c >= 65 /\ c <= 90) \/ (c >= 97 /\ c <= 122)

TypeIDAT == << 73, 68, 65, 84 >>

TypeIEND == << 73, 69, 78, 68 >>

TypeFDEC == << 102, 100, 69, 67 >>

\* Variants of the reader's tests, each with one test left out: a reader
\* that verifies no chunk CRC-32, one that verifies no IHDR CRC-32, one that
\* takes no chunk for critical, and one that accepts a second IDAT chunk.
ChunkCrcUnchecked(pImage, past, src_ofs, chunk_len, is_idat) == TRUE

IhdrCrcUnchecked(pImage, past) == TRUE

NeverCritical(chunk_type) == FALSE

IdatNeedsFdecOnly(idat_ofs, found_fdec_chunk) == ~found_fdec_chunk

\* The CRC-32 test every chunk but IDAT has to pass: the CRC of the type
\* and the data against the four bytes that follow the data.
ChunkCrcOk(pImage, past, src_ofs, chunk_len, is_idat) ==
    is_idat \/ fpng_crc32(U32(FPNG_CRC32_INIT), pImage, src_ofs + 4, 4 + chunk_len)
                   = READ_BE32(pImage, past, src_ofs + 8 + chunk_len)

\* The contents test of an fdEC chunk: five bytes, the signature and the
\* version.
FdecOk(pImage, pChunk_data, chunk_len) ==
    /\ chunk_len = 5
    /\ ~( \/ At(pImage, pChunk_data) # 82
          \/ At(pImage, pChunk_data + 1) # 36
          \/ At(pImage, pChunk_data + 2) # 147
          \/ At(pImage, pChunk_data + 3) # 227 )
    /\ At(pImage, pChunk_data + 4) = FPNG_FDEC_VERSION

\* (chunk_type[0] & 32) == 0
IsCritical(chunk_type) == (chunk_type[1] \div 32) % 2 = 0

\* The IDAT branch's first test: a second IDAT, or no fdEC chunk so far.
IdatOutOfPlace(idat_ofs, found_fdec_chunk) == idat_ofs # 0 \/ ~found_fdec_chunk

\* The chunk loop of fpng_get_info_internal, from the chunk at src_ofs.
\* seen lists, for every chunk whose stored CRC-32 was read so far, the
\* offset of the chunk and the offset after the last byte of that CRC-32.
RECURSIVE ScanChunks(_, _, _, _, _, _, _)
ScanChunks(pImage, past, src_ofs, found_fdec_chunk, idat_ofs, idat_len, seen) ==
    LET image_size == Len(pImage)
        ret(status, sn) == [ status |-> status, idat_ofs |-> idat_ofs,
                             idat_len |-> idat_len, seen |-> sn ]
    IN
    IF src_ofs >= image_size THEN ret("FPNG_DECODE_FAILED_CHUNK_PARSING", seen)
    ELSE IF image_size - src_ofs < 12 THEN ret("FPNG_DECODE_FAILED_CHUNK_PARSING", seen)
    ELSE LET chunk_len32 == READ_BE32(pImage, past, src_ofs)
         IN
         IF ULt(U64(image_size), UAdd(U64(src_ofs + 4 + 4), Resize(chunk_len32, 8)))
         THEN ret("FPNG_DECODE_FAILED_CHUNK_PARSING", seen)
         ELSE LET chunk_len == FromLE(chunk_len32)
                  chunk_type == Slice(pImage, src_ofs + 4, 4)
                  is_idat == (chunk_type = TypeIDAT)
                  pChunk_data == src_ofs + 8
                  next_ofs == src_ofs + 8 + chunk_len + 4
                  sn == Append(seen, << src_ofs, next_ofs >>)
              IN
              IF \E i \in 1..4 : ~IsLetter(chunk_type[i])
              THEN ret("FPNG_DECODE_FAILED_CHUNK_PARSING", seen)
              ELSE IF ~ChunkCrcOk(pImage, past, src_ofs, chunk_len, is_idat)
              THEN ret("FPNG_DECODE_FAILED_HEADER_CRC32", sn)
              ELSE IF chunk_type = TypeIEND
              THEN IF (~found_fdec_chunk) \/ idat_ofs = 0
                   THEN ret("FPNG_DECODE_NOT_FPNG", sn)
                   ELSE ret("FPNG_DECODE_SUCCESS", sn)
              ELSE IF is_idat
              THEN IF IdatOutOfPlace(idat_ofs, found_fdec_chunk)
                   THEN ret("FPNG_DECODE_NOT_FPNG", sn)
                   ELSE IF chunk_len < 7
                   THEN [ status |-> "FPNG_DECODE_FAILED_INVALID_IDAT",
                          idat_ofs |-> src_ofs, idat_len |-> chunk_len, seen |-> sn ]
                   ELSE ScanChunks(pImage, past, next_ofs,
                                   found_fdec_chunk, src_ofs, chunk_len, sn)
              ELSE IF chunk_type = TypeFDEC
              THEN IF found_fdec_chunk THEN ret("FPNG_DECODE_NOT_FPNG", sn)
                   ELSE IF ~FdecOk(pImage, pChunk_data, chunk_len)
                   THEN ret("FPNG_DECODE_NOT_FPNG", sn)
                   ELSE ScanChunks(pImage, past, next_ofs, TRUE, idat_ofs, idat_len, sn)
              ELSE IF IsCritical(chunk_type)
              THEN ret("FPNG_DECODE_NOT_FPNG", sn)
              ELSE ScanChunks(pImage, past, next_ofs,
                              found_fdec_chunk, idat_ofs, idat_len, sn)

\* The IHDR test after the length test: the CRC of its type and 13 bytes.
IhdrCrcOk(pImage, past) ==
    fpng_crc32(U32(FPNG_CRC32_INIT), pImage, 12, 4 + IHDR_EXPECTED_LENGTH)
        = READ_BE32(pImage, past, 29)

\* fpng_get_info_internal(pImage, image_size, ...): the status and the
\* values left in width, height (32-bit), channels_in_file, idat_ofs and
\* idat_len when it returns; seen is what the chunk loop read,
\* as ScanChunks lists it.
fpng_get_info_internal(pImage, past) ==
    LET info(status, width, height, channels, idat_ofs, idat_len) ==
            [ status |-> status, width |-> width, height |-> height,
              channels_in_file |-> channels, idat_ofs |-> idat_ofs, idat_len |-> idat_len,
              seen |-> << >> ]
        early(status) == info(status, U32(0), U32(0), 0, 0, 0)
    IN
    IF Len(pImage) < MinImageSize THEN early("FPNG_DECODE_FAILED_NOT_PNG")
    ELSE IF Slice(pImage, 0, 8) # s_png_sig THEN early("FPNG_DECODE_FAILED_NOT_PNG")
    ELSE IF READ_BE32(pImage, past, 8) # U32(IHDR_EXPECTED_LENGTH)
    THEN early("FPNG_DECODE_FAILED_NOT_PNG")
    ELSE IF ~IhdrCrcOk(pImage, past)
    THEN early("FPNG_DECODE_FAILED_HEADER_CRC32")
    ELSE LET width == READ_BE32(pImage, past, 16)
             height == READ_BE32(pImage, past, 20)
             m_bitdepth == At(pImage, 24)
             m_color_type == At(pImage, 25)
             channels_in_file == IF m_color_type = 2 THEN 3
                                 ELSE IF m_color_type = 6 THEN 4 ELSE 0
         IN
         IF \/ UIsZero(width) \/ UIsZero(height)
            \/ ULt(U32(FPNG_MAX_SUPPORTED_DIM), width)
            \/ ULt(U32(FPNG_MAX_SUPPORTED_DIM), height)
         THEN info("FPNG_DECODE_FAILED_INVALID_DIMENSIONS", width, height, 0, 0, 0)
         ELSE IF ULt(U64(1073741824), UMul(Resize(width, 8), Resize(height, 8)))
         THEN info("FPNG_DECODE_FAILED_INVALID_DIMENSIONS", width, height, 0, 0, 0)
         ELSE IF At(pImage, 26) # 0 \/ At(pImage, 27) # 0 \/ At(pImage, 28) # 0
                 \/ m_bitdepth # 8
         THEN info("FPNG_DECODE_NOT_FPNG", width, height, 0, 0, 0)
         ELSE IF channels_in_file = 0
         THEN info("FPNG_DECODE_NOT_FPNG", width, height, 0, 0, 0)
         ELSE LET scan == ScanChunks(pImage, past, 8 + 25, FALSE, 0, 0, << >>)
              IN [ info(scan.status, width, height, channels_in_file,
                        scan.idat_ofs, scan.idat_len) EXCEPT !.seen = scan.seen ]

\* fpng_get_info: the status, width, height and channels_in_file.
fpng_get_info(pImage, past) ==
    LET r == fpng_get_info_internal(pImage, past)
    IN [ status |-> r.status, width |-> r.width, height |-> r.height,
         channels_in_file |-> r.channels_in_file ]

\* fpng_decode_memory(pImage, image_size, out, width, height,
\* channels_in_file, desired_channels): the status and the values left in
\* width, height and channels_in_file; out is the pixels on success and
\* left empty here otherwise.
DecodeResult(r, status, out) ==
    [ status |-> status, width |-> r.width, height |-> r.height,
      channels_in_file |-> r.channels_in_file, out |-> out ]

\* The decompression of the IDAT data found by fpng_get_info_internal, r
\* being what it returned: fpng_pixel_zlib_decompress_3 for a file of 3
\* channels, fpng_pixel_zlib_decompress_4 otherwise.
DecodeIdat(pImage, r, desired_channels) ==
    The({ IF d.ok THEN DecodeResult(r, "FPNG_DECODE_SUCCESS", d.dst)
          ELSE DecodeResult(r, "FPNG_DECODE_NOT_FPNG", << >>) :
          d \in { PixelZlibDecompress(
                      Slice(pImage, r.idat_ofs + 8, Len(pImage) - (r.idat_ofs + 8)),
                      Len(pImage) - (r.idat_ofs + 8), r.idat_len, r.width, r.height,
                      IF r.channels_in_file = 3 THEN 3 ELSE 4, desired_channels) } })

fpng_decode_memory(pImage, past, desired_channels) ==
    IF Len(pImage) = 0 \/ (desired_channels # 3 /\ desired_channels # 4)
    THEN [ status |-> "FPNG_DECODE_INVALID_ARG", width |-> U32(0), height |-> U32(0),
           channels_in_file |-> 0, out |-> << >> ]
    ELSE The({
      IF r.status # "FPNG_DECODE_SUCCESS" THEN DecodeResult(r, r.status, << >>)
      ELSE IF ULt(Resize(UINT32_MAX, 8),
                  UMulSmall(UMul(Resize(r.width, 8), Resize(r.height, 8)),
                            desired_channels))
      THEN DecodeResult(r, "FPNG_DECODE_FAILED_DIMENSIONS_TOO_LARGE", << >>)
      ELSE DecodeIdat(pImage, r, desired_channels) :
        r \in { fpng_get_info_internal(pImage, past) } })

\* ---------------------------------------------------------------------
\* The state machine: a client of the library
\* ---------------------------------------------------------------------

\* pc    where the client stands: "start", "encoded", "probed", "decoded",
\*       or "build" while a file is put together chunk by chunk
\* img   the arguments of the encoder: w, h, num_chans, flags and the
\*       pixels
\* enc   what fpng_encode_image_to_memory returned, ok, and the filtered
\*       scanlines it compressed, temp_buf; its out_buf is handed on in
\*       input
\* input  what is handed to the reader: bytes, the bytes of the file, and
\*        from, who made them
\* info  what fpng_get_info returned
\* dec   what fpng_decode_memory returned, with the desired_channels asked
\* chunks  the kinds of the chunks appended to file after IHDR
VARIABLES pc, img, enc, input, info, dec, chunks

vars == << pc, img, enc, input, info, dec, chunks >>

\* The bytes handed to the reader.
file == input.bytes

NoEnc == [ ok |-> FALSE, temp_buf |-> << >> ]

NoInfo == [ status |-> "none", width |-> U32(0), height |-> U32(0), channels_in_file |-> 0 ]

NoDec == [ desired |-> 0, status |-> "none", width |-> U32(0), height |-> U32(0),
           channels_in_file |-> 0, out |-> << >> ]

\* n copies of the pixel px, one after the other.
Flat(n, px) == << >> \o [i \in 1..(n * Len(px)) |-> px[((i - 1) % Len(px)) + 1]]

\* The image bytes of a list of runs.
RECURSIVE RunsRange(_, _, _)
RunsRange(runs, lo, hi) ==
    IF lo > hi THEN << >>
    ELSE IF lo = hi THEN Flat(runs[lo][1], runs[lo][2])
    ELSE RunsRange(runs, lo, (lo + hi) \div 2) \o RunsRange(runs, ((lo + hi) \div 2) + 1, hi)

RunsPixels(runs) == RunsRange(runs, 1, Len(runs))

\* Stripes of period pixels, alternately a and b, total pixels in all.
Stripes(total, period, a, b) ==
    [j \in 1..((total + period - 1) \div period) |->
        << Min(period, total - (j - 1) * period), IF j % 2 = 1 THEN a ELSE b >>]

\* The bytes that follow a buffer in memory, for reads past its end.
PastBytes == { << 0, 0, 0, 0 >>, << 255, 255, 255, 255 >>,
               BE32(fpng_crc32(U32(FPNG_CRC32_INIT), TypeIEND \o << 174, 66, 96, 130 >>, 0, 8)) }

\* The two colours of the images, by channel count.
ColourA(num_chans) == IF num_chans = 3 THEN << 0, 0, 0 >> ELSE << 0, 0, 0, 255 >>

ColourB(num_chans) == IF num_chans = 3 THEN << 255, 1, 128 >> ELSE << 255, 1, 128, 7 >>

\* The small image sizes, and the width of the one-row wide image.
SmallDims == { << 1, 1 >>, << 2, 1 >>, << 1, 2 >>, << 3, 2 >>, << 16, 3 >> }

WideDim == 65536

StripePeriods == { 1, 2, 5 }

FlagSets == SUBSET EncodeFlags

Images ==
    { [ w |-> d[1], h |-> d[2], num_chans |-> c, flags |-> f,
        pixels |-> RunsPixels(Stripes(d[1] * d[2], Min(p, d[1] * d[2]),
                                      ColourA(c), ColourB(c))) ] :
        d \in SmallDims, c \in {3, 4}, f \in FlagSets, p \in StripePeriods \cup {48} }
    \cup
    { [ w |-> WideDim, h |-> 1, num_chans |-> c, flags |-> f,
        pixels |-> Flat(WideDim, ColourA(c)) ] :
        c \in {3, 4}, f \in { {}, { "FPNG_FORCE_UNCOMPRESSED" } } }

Init ==
    /\ pc = "start"
    /\ img \in Images
    /\ enc = NoEnc
    /\ input = [ from |-> "nobody", bytes |-> << >> ]
    /\ info = NoInfo
    /\ dec = NoDec
    /\ chunks = << >>

\* The client encodes its image.
Encode ==
    /\ pc = "start"
    /\ \E r \in { fpng_encode_image_to_memory(img.pixels, img.w, img.h,
                                              img.num_chans, img.flags) } :
          /\ enc' = [ ok |-> r.ok, temp_buf |-> r.temp_buf ]
          /\ input' = [ from |-> "encoder", bytes |-> r.out_buf ]
    /\ pc' = "encoded"
    /\ UNCHANGED << img, info, dec, chunks >>

\* The client asks for the dimensions of the file.
GetInfo ==
    /\ pc = "encoded"
    /\ enc.ok
    /\ \E past \in PastBytes : info' = fpng_get_info(file, past)
    /\ pc' = "probed"
    /\ UNCHANGED << img, enc, input, dec, chunks >>

\* The client decodes the file to desired_channels channels.
Decode(desired_channels) ==
    /\ pc = "probed"
    /\ \E past \in PastBytes :
          dec' = [ desired |-> desired_channels ]
                     @@ fpng_decode_memory(file, past, desired_channels)
    /\ pc' = "decoded"
    /\ UNCHANGED << img, enc, input, info, chunks >>

Next ==
    \/ Encode
    \/ GetInfo
    \/ \E desired_channels \in {3, 4} : Decode(desired_channels)

Spec == Init /\ [][Next]_vars

\* ---------------------------------------------------------------------
\* Properties of the encoder's files and of their decoding
\* ---------------------------------------------------------------------

\* The IDAT payload of the encoder's file: the zlib stream.
IdatPayload == SubSeq(file, PNG_HEADER_SIZE + 1, Len(file) - 16)

\* The first block of the zlib stream is a stored block: BTYPE, the two
\* bits after BFINAL, is 0.
IsStored == (At(file, PNG_HEADER_SIZE + 2) \div 2) % 4 = 0

\* The pixels with an alpha byte 255 after every three bytes.
WithAlpha(pixels) ==
    [i \in 1..((Len(pixels) \div 3) * 4) |->
        IF i % 4 = 0 THEN 255 ELSE pixels[((i - 1) \div 4) * 3 + ((i - 1) % 4) + 1]]

\* The pixels without the fourth byte of every four.
WithoutAlpha(pixels) ==
    [i \in 1..((Len(pixels) \div 4) * 3) |-> pixels[((i - 1) \div 3) * 4 + ((i - 1) % 3) + 1]]

\* fpng_decode_memory returned Success with the image's dimensions and
\* channel count and the pixels px.
DecodedAs(px) ==
    /\ dec.status = "FPNG_DECODE_SUCCESS"
    /\ dec.width = U32(img.w)
    /\ dec.height = U32(img.h)
    /\ dec.channels_in_file = img.num_chans
    /\ dec.out = px

\* C1 (as the specification states it; the code does not keep it): for
\* every valid image and flags 0 or FPNG_ENCODE_SLOWER, encoding and then
\* decoding with desired_channels = C gives Success, the image's width,
\* height and channel count, and its pixels.
C1_RoundTrip ==
    (pc = "decoded" /\ img.flags \subseteq { "FPNG_ENCODE_SLOWER" }
       /\ dec.desired = img.num_chans)
    => DecodedAs(img.pixels)

\* C2 (as the specification states it; the code does not keep it): every
\* valid 3-channel image decodes with desired_channels = 4 to Success,
\* channels_in_file = 3 and its pixels with an alpha byte 0xFF each.
C2_ExpandAlpha ==
    (pc = "decoded" /\ img.num_chans = 3 /\ dec.desired = 4)
    => DecodedAs(WithAlpha(img.pixels))

\* C3 (as the specification states it; the code does not keep it): every
\* valid 4-channel image decodes with desired_channels = 3 to Success,
\* channels_in_file = 4 and its pixels with the alpha bytes removed.
C3_StripAlpha ==
    (pc = "decoded" /\ img.num_chans = 4 /\ dec.desired = 3)
    => DecodedAs(WithoutAlpha(img.pixels))

\* C10 (as the specification states it; the code does not keep it): the
\* IHDR chunk stores width and height as 32-bit big-endian integers equal
\* to the arguments and colour type 2 or 6, and fpng_get_info on the file
\* reports (width, height, C).
C10_HeaderDims ==
    pc = "probed"
    => /\ Slice(file, 16, 4) = BE32(U32(img.w))
       /\ Slice(file, 20, 4) = BE32(U32(img.h))
       /\ At(file, 25) = (IF img.num_chans = 3 THEN 2 ELSE 6)
       /\ info = [ status |-> "FPNG_DECODE_SUCCESS", width |-> U32(img.w),
                   height |-> U32(img.h), channels_in_file |-> img.num_chans ]

\* C11: every file the encoder returns is the PNG signature, an IHDR chunk
\* of 13 bytes, the fdEC chunk 52 24 93 E3 00, one IDAT chunk whose length
\* field is the number of zlib bytes and whose payload starts with 78 01
\* and ends with the big-endian Adler-32 of the filtered stream that was
\* compressed, and an empty IEND chunk; its length is 58 + IDAT length + 16.
C11_FileLayout ==
    (pc = "encoded" /\ enc.ok)
    => /\ Len(file) = 58 + Len(IdatPayload) + 16
       /\ Slice(file, 0, 8) = << 137, 80, 78, 71, 13, 10, 26, 10 >>
       /\ Slice(file, 8, 8) = << 0, 0, 0, 13, 73, 72, 68, 82 >>
       /\ Slice(file, 29, 4) = BE32(fpng_crc32(U32(FPNG_CRC32_INIT), file, 12, 17))
       /\ Slice(file, 33, 13) = << 0, 0, 0, 5, 102, 100, 69, 67, 82, 36, 147, 227, 0 >>
       /\ Slice(file, 46, 4) = BE32(fpng_crc32(U32(FPNG_CRC32_INIT), file, 37, 9))
       /\ Slice(file, 50, 4) = BE32(U32(Len(IdatPayload)))
       /\ Slice(file, 54, 4) = << 73, 68, 65, 84 >>
       /\ Len(IdatPayload) >= 6
       /\ Slice(IdatPayload, 0, 2) = << 120, 1 >>
       /\ Slice(IdatPayload, Len(IdatPayload) - 4, 4)
             = AdlerBE(fpng_adler32(<< FPNG_ADLER32_INIT, 0 >>, enc.temp_buf, 0,
                                    Len(enc.temp_buf)))
       /\ Slice(file, Len(file) - 16, 4)
             = BE32(fpng_crc32(U32(FPNG_CRC32_INIT), file, 54, 4 + Len(IdatPayload)))
       /\ Slice(file, Len(file) - 12, 12)
             = << 0, 0, 0, 0, 73, 69, 78, 68, 174, 66, 96, 130 >>

C11_Witness ==
    /\ pc = "encoded"
    /\ enc.ok
    /\ img.h = 3
    /\ ~IsStored
    /\ Len(file) = 58 + Len(IdatPayload) + 16

\* The filter byte of row y in the filtered stream that was compressed.
FilterByte(y) == At(enc.temp_buf, y * (img.w * img.num_chans + 1))

\* The filtered stream is the image's rows, each after its filter byte and
\* each less the row above it where the filter byte is 2.
StreamIsImage ==
    /\ Len(enc.temp_buf) = (img.w * img.num_chans + 1) * img.h
    /\ \A y \in 0..(img.h - 1) :
          \A i \in 0..(img.w * img.num_chans - 1) :
             At(enc.temp_buf, y * (img.w * img.num_chans + 1) + 1 + i)
                = IF FilterByte(y) = 0
                  THEN At(img.pixels, y * img.w * img.num_chans + i)
                  ELSE (At(img.pixels, y * img.w * img.num_chans + i)
                        - At(img.pixels, (y - 1) * img.w * img.num_chans + i) + 256) % 256

BlackPixel == img.w = 1 /\ img.h = 1 /\ img.num_chans = 3 /\ img.pixels = << 0, 0, 0 >>

\* C13 as stated: the file for the 1x1 RGB image (0,0,0) has an IDAT
\* payload of exactly 22 bytes, one dynamic block, and fpng_get_info
\* returns (1,1,3).
C13_Original ==
    (pc = "probed" /\ BlackPixel /\ img.flags = {})
    => /\ Len(IdatPayload) = 22
       /\ ~IsStored
       /\ info = [ status |-> "FPNG_DECODE_SUCCESS", width |-> U32(1),
                   height |-> U32(1), channels_in_file |-> 3 ]

\* C13, amended: the file for the 1x1 RGB image (0,0,0) has an IDAT
\* payload of exactly 15 bytes: the zlib header 78 01, one stored block
\* (01 04 00 FB FF and the four bytes 00 00 00 00), and the Adler-32
\* 00 04 00 01, the dynamic block not fitting the buffer sized for it;
\* fpng_get_info returns (1,1,3).
C13_BlackPixelFile ==
    (pc = "probed" /\ BlackPixel)
    => /\ IdatPayload = << 120, 1, 1, 4, 0, 251, 255, 0, 0, 0, 0, 0, 4, 0, 1 >>
       /\ info = [ status |-> "FPNG_DECODE_SUCCESS", width |-> U32(1),
                   height |-> U32(1), channels_in_file |-> 3 ]

C13_Witness == pc = "probed" /\ BlackPixel /\ img.flags = {} /\ Len(IdatPayload) = 15

\* ---------------------------------------------------------------------
\* The encoder test: every image is encoded and its file decoded at once
\* ---------------------------------------------------------------------

\* One turn of the loop of fuzz_test_encoder2: the image is encoded and,
\* when that succeeds, the file is decoded with the image's channel count.
\* The file lives in the turn only; stored tells whether the first block
\* of its zlib stream is a stored block (BTYPE, the two bits after BFINAL
\* of the byte after the two zlib header bytes, is 0).
EncoderTestTurn ==
    /\ pc = "start"
    /\ \E r \in { fpng_encode_image_to_memory(img.pixels, img.w, img.h,
                                              img.num_chans, img.flags) } :
          /\ r.ok
          /\ enc' = [ ok |-> r.ok, temp_buf |-> << >>,
                      stored |-> (At(r.out_buf, PNG_HEADER_SIZE + 2) \div 2) % 4 = 0 ]
          /\ \E past \in PastBytes :
                dec' = [ desired |-> img.num_chans ]
                           @@ fpng_decode_memory(r.out_buf, past, img.num_chans)
    /\ pc' = "tested"
    /\ UNCHANGED << img, input, info, chunks >>

TestNext == EncoderTestTurn

SpecTest == Init /\ [][TestNext]_vars

\* C14 (as the specification states it; the code does not keep it): files
\* of stored blocks, written with FPNG_FORCE_UNCOMPRESSED or by the
\* fallback, decode to Success with the pixels of the image for
\* desired_channels equal to the file's channel count.
C14_StoredRoundTrip ==
    (pc = "tested" /\ enc.stored) => DecodedAs(img.pixels)

\* The bytes with the last one, the low byte of a stored CRC-32, altered.
AlterLast(bytes) == [ bytes EXCEPT ![Len(bytes)] = (bytes[Len(bytes)] + 1) % 256 ]

\* The bytes with the one at the 0-based offset i altered.
AlterAt(bytes, i) == [ bytes EXCEPT ![i + 1] = (bytes[i + 1] + 1) % 256 ]

\* ---------------------------------------------------------------------
\* The tables of a dynamic block, step by step
\* ---------------------------------------------------------------------

\* The frequency tables the steps are run on: the first k symbols used.
FlatFreq(k, v, len) == [ i \in 1..len |-> IF i <= k THEN v ELSE 0 ]

\* Counts 1, 1, 2, 3, 5, ...: the deepest trees.
FibFreq(k, len) ==
    LET F[i \in 1..len] == IF i <= 2 THEN 1 ELSE F[i - 1] + F[i - 2]
    IN [ i \in 1..len |-> IF i <= k THEN F[i] ELSE 0 ]

\* One frequent symbol and k rare ones.
BigSmallFreq(big, k, len) ==
    [ i \in 1..len |-> IF i = 1 THEN big ELSE IF i <= k + 1 THEN 1 ELSE 0 ]

\* Used and unused symbols in turn, in runs of different lengths.
SpreadFreq(m, len) ==
    [ i \in 1..len |-> IF (i \div m) % 3 = 1 THEN 0 ELSE ((i * 7) % 13) + 1 ]

\* The literal counts of an image of one colour and the end of block.
LitFreq(lit, count, len) ==
    [ i \in 1..len |-> IF i = lit + 1 THEN count ELSE IF i = 257 THEN 1 ELSE 0 ]

\* Two groups of symbols of one count, five unused symbols between them,
\* and the end of block after a long run of unused symbols.
MixedFreq(v, len) ==
    [ i \in 1..len |-> IF i <= 8 \/ i \in 14 .. 20 THEN v ELSE IF i = 257 THEN 1 ELSE 0 ]

\* 32-bit counts, brought to 16 bits by adjust_freq32.
HuffFreqs32 ==
    { FlatFreq(k, v, DEFL_MAX_HUFF_SYMBOLS_0) :
          k \in { 0, 1, 2, 3, 257, 288 }, v \in { 1, 20000 } }
    \cup { FibFreq(k, DEFL_MAX_HUFF_SYMBOLS_0) : k \in { 14, 22, 30 } }
    \cup { BigSmallFreq(big, k, DEFL_MAX_HUFF_SYMBOLS_0) :
              big \in { 300, 1000000 }, k \in { 10, 200, 287 } }
    \cup { SpreadFreq(m, DEFL_MAX_HUFF_SYMBOLS_0) : m \in { 1, 5, 12, 150 } }
    \cup { LitFreq(lit, c, DEFL_MAX_HUFF_SYMBOLS_0) : lit \in { 0, 255 }, c \in { 1, 4 } }
    \cup { MixedFreq(v, DEFL_MAX_HUFF_SYMBOLS_0) : v \in { 3, 500 } }

\* 16-bit counts written to m_huff_count as they are: the counts of the
\* packed code sizes and the one distance symbol.
HuffCounts16 ==
    { [ table_len |-> DEFL_MAX_HUFF_SYMBOLS_2, cap |-> 7, freq |-> f ] :
          f \in { FlatFreq(k, 1, DEFL_MAX_HUFF_SYMBOLS_2) : k \in { 0, 1, 2, 3, 19 } }
                \cup { FibFreq(k, DEFL_MAX_HUFF_SYMBOLS_2) : k \in { 9, 19 } }
                \cup { SpreadFreq(m, DEFL_MAX_HUFF_SYMBOLS_2) : m \in { 1, 2 } } }
    \cup { [ table_len |-> DEFL_MAX_HUFF_SYMBOLS_1, cap |-> 12,
             freq |-> Put(Zeros(DEFL_MAX_HUFF_SYMBOLS_1), At(g_defl_small_dist_sym, n - 1), 1) ] :
              n \in { 3, 4 } }
    \cup { [ table_len |-> DEFL_MAX_HUFF_SYMBOLS_0, cap |-> 12,
             freq |-> FlatFreq(k, UINT16_MAX, DEFL_MAX_HUFF_SYMBOLS_0) ] : k \in { 2, 34 } }

HuffInputs ==
    { [ table_len |-> DEFL_MAX_HUFF_SYMBOLS_0, cap |-> 12, freq |-> f, direct |-> FALSE ] :
          f \in HuffFreqs32 }
    \cup { [ table_len |-> c.table_len, cap |-> c.cap, freq |-> c.freq, direct |-> TRUE ] :
              c \in HuffCounts16 }

HuffInit ==
    /\ pc = "start"
    /\ \E t \in HuffInputs :
          img = [ w |-> 0, h |-> 0, flags |-> {}, pixels |-> << >>,
                  \* the pixel width of the coder: 3 and 4 in turn
                  num_chans |-> 3 + (Len(SelectSeq(t.freq, LAMBDA f : f # 0)) % 2),
                  table_len |-> t.table_len, cap |-> t.cap, freq |-> t.freq,
                  direct |-> t.direct ]
    /\ enc = NoEnc
    /\ input = [ from |-> "nobody", bytes |-> << >> ]
    /\ info = NoInfo
    /\ dec = NoDec
    /\ chunks = << >>

\* adjust_freq32 on the 32-bit counts of the first pass.
HuffAdjust ==
    /\ pc = "start"
    /\ ~img.direct
    /\ enc' = [ ok |-> TRUE, temp_buf |-> << >>,
                count |-> adjust_freq32(img.table_len, img.freq) ]
    /\ pc' = "counted"
    /\ UNCHANGED << img, input, info, dec, chunks >>

\* The counts stored in m_huff_count without scaling.
HuffStore ==
    /\ pc = "start"
    /\ img.direct
    /\ enc' = [ ok |-> TRUE, temp_buf |-> << >>, count |-> img.freq ]
    /\ pc' = "counted"
    /\ UNCHANGED << img, input, info, dec, chunks >>

\* The code sizes defl_calculate_minimum_redundancy leaves in the keys.
HuffDepths(pSym_count, table_len) ==
    Keys(defl_calculate_minimum_redundancy(
             defl_radix_sort_syms(UsedSyms(pSym_count, table_len))))

\* num_codes has 1 + DEFL_MAX_SUPPORTED_HUFF_CODESIZE elements: with a
\* deeper tree num_codes[pSyms[i].m_key]++ is a store outside num_codes.
HuffDepthsFit(pSym_count, table_len) ==
    \A K \in { HuffDepths(pSym_count, table_len) } :
        \A i \in 1 .. Len(K) : K[i] <= DEFL_MAX_SUPPORTED_HUFF_CODESIZE

\* The tables defl_optimize_huffman_table can leave: the one it computes
\* or, after a store outside num_codes (fit is FALSE), any code sizes.
HuffOutcomes(pSym_count, table_len, code_size_limit, fit) ==
    IF fit
    THEN { defl_optimize_huffman_table(pSym_count, table_len, code_size_limit) }
    ELSE { [ m_huff_code_sizes |-> [ i \in 1..table_len |-> IF i <= k THEN l ELSE 0 ],
             m_huff_codes |-> Zeros(table_len) ] :
               k \in { 0, table_len }, l \in { 1, code_size_limit, 255 } }

\* defl_optimize_huffman_table on the counts.
HuffOptimize ==
    /\ pc = "counted"
    /\ \E fit \in { HuffDepthsFit(enc.count, img.table_len) } :
          \E t \in HuffOutcomes(enc.count, img.table_len, img.cap, fit) :
              enc' = [ enc EXCEPT !.ok = fit ] @@ [ huff |-> t ]
    /\ pc' = "built"
    /\ UNCHANGED << img, input, info, dec, chunks >>

\* The code sizes defl_start_dynamic_block packs: those of the literal
\* table up to the last used one and those of the distance table.
CodeSizesToPack(t0, t1) ==
    SubSeq(t0.m_huff_code_sizes, 1, LastUsed(t0.m_huff_code_sizes, 286, 257))
    \o SubSeq(t1.m_huff_code_sizes, 1, LastUsed(t1.m_huff_code_sizes, 30, 1))

\* The counts of the distance symbols: those of the coders, which use the
\* symbol of distance n alone (m_huff_count[1][dist_sym] = 1), and, for
\* the reader, counts no coder writes: a second used symbol, the symbol
\* before and the symbol after.
DistCounts(n) ==
    LET dist_sym == At(g_defl_small_dist_sym, n - 1)
    IN { Put(Zeros(DEFL_MAX_HUFF_SYMBOLS_1), dist_sym, 1),
         Put(Put(Zeros(DEFL_MAX_HUFF_SYMBOLS_1), 0, 1), dist_sym, 1),
         Put(Zeros(DEFL_MAX_HUFF_SYMBOLS_1), dist_sym - 1, 1),
         Put(Zeros(DEFL_MAX_HUFF_SYMBOLS_1), dist_sym + 1, 1) }

\* The packing loop of defl_start_dynamic_block on the literal table
\* built and a distance table.
HuffPack ==
    /\ pc = "built"
    /\ enc.ok
    /\ img.table_len = DEFL_MAX_HUFF_SYMBOLS_0
    /\ \E count_1 \in DistCounts(img.num_chans) :
       \E t1 \in { defl_optimize_huffman_table(count_1, DEFL_MAX_HUFF_SYMBOLS_1, 12) } :
       \E pk \in { PackCodeSizes(CodeSizesToPack(enc.huff, t1)) } :
          enc' = enc @@ [ count_1 |-> count_1, huff_1 |-> t1,
                          to_pack |-> CodeSizesToPack(enc.huff, t1),
                          pk |-> pk,
                          huff_2 |-> defl_optimize_huffman_table(
                                         pk.count, DEFL_MAX_HUFF_SYMBOLS_2, 7) ]
    /\ pc' = "packed"
    /\ UNCHANGED << img, input, info, dec, chunks >>

\* The block header written by defl_start_dynamic_block after the bit
\* BFINAL, with the bytes the reader may load after it.
HeaderBytes(t0, t1, pk, t2) ==
    LET room == 2 * (DEFL_MAX_HUFF_SYMBOLS_0 + DEFL_MAX_HUFF_SYMBOLS_1)
    IN PUT_BITS_FORCE_FLUSH(
           PutDynamicHeader(PUT_BITS(WriterInit(0, 0, << >>), 1, 1), t0, t1, pk, t2, room),
           room).dst \o Zeros(8)

\* prepare_dynamic_block, called for a file of read_as channels, on the
\* block header of the tables packed.
HuffRead ==
    /\ pc = "packed"
    /\ \E read_as \in { 3, 4 } :
       \E pSrc \in { HeaderBytes(enc.huff, enc.huff_1, enc.pk, enc.huff_2) } :
       \E rd \in { prepare_dynamic_block(
                       pSrc, Len(pSrc),
                       GET_BITS(GET_BITS(ReaderInit(pSrc, 0), 1, pSrc, Len(pSrc)).R,
                                2, pSrc, Len(pSrc)).R,
                       read_as) } :
          enc' = enc @@ [ read_as |-> read_as, header |-> pSrc, rd |-> [ ok |-> rd.ok, T |-> rd.T ] ]
    /\ pc' = "read"
    /\ UNCHANGED << img, input, info, dec, chunks >>

HuffNext == HuffAdjust \/ HuffStore \/ HuffOptimize \/ HuffPack \/ HuffRead

SpecHuff == HuffInit /\ [][HuffNext]_vars

\* ---------------------------------------------------------------------
\* The first pass of the two-pass coders, one scanline at a time
\* ---------------------------------------------------------------------

\* The images parsed: among them one of 5 pixels, whose 16 filtered bytes
\* fill temp_buf, and rows of 90 pixels, longer than the longest match.
TokDims == { << 1, 1 >>, << 2, 1 >>, << 5, 1 >>, << 3, 2 >>, << 16, 3 >>, << 90, 2 >> }

TokPeriods == { 1, 2, 5, 88, 200 }

TokImages ==
    { [ w |-> d[1], h |-> d[2], num_chans |-> c, flags |-> f,
        pixels |-> RunsPixels(Stripes(d[1] * d[2], Min(p, d[1] * d[2]),
                                      ColourA(c), ColourB(c))) ] :
        d \in TokDims, c \in {3, 4}, p \in TokPeriods,
        f \in { {}, { "FPNG_ENCODE_SLOWER" } } }

TokInit ==
    /\ pc = "start"
    /\ img \in TokImages
    /\ enc = NoEnc
    /\ input = [ from |-> "nobody", bytes |-> << >> ]
    /\ info = NoInfo
    /\ dec = NoDec
    /\ chunks = << >>

\* fpng_encode_image_to_memory up to the call of the coder: temp_buf, of
\* buf_size bytes, holds the filtered scanlines.  scan is the state of
\* the coder's first pass and row_start the number of codes before the
\* scanline parsed last.
TokFilter ==
    /\ pc = "start"
    /\ EncodeArgsValid(img.w, img.h, img.num_chans)
    /\ enc' = [ ok |-> TRUE,
                temp_buf |-> EncodeFilter(img.pixels, img.w, img.h, img.num_chans),
                buf_size |-> FromLE(EncTempBufSize(img.w, img.h, img.num_chans)),
                scan |-> ScanStart, row_start |-> 0 ]
    /\ pc' = "rows"
    /\ UNCHANGED << img, input, info, dec, chunks >>

\* One turn of the loop over y of pixel_deflate_dyn_3_rle and
\* pixel_deflate_dyn_4_rle.
TokRow ==
    /\ pc = "rows"
    /\ "FPNG_ENCODE_SLOWER" \in img.flags
    /\ enc.scan.y < img.h
    /\ enc' = [ enc EXCEPT !.scan = ScanRow(enc.temp_buf, img.num_chans,
                                            1 + img.w * img.num_chans, enc.scan),
                           !.row_start = Len(enc.scan.codes) ]
    /\ pc' = IF enc.scan.y + 1 < img.h THEN "rows" ELSE "scanned"
    /\ UNCHANGED << img, input, info, dec, chunks >>

\* The bits a writer holds: those of the bytes of pDst, then bit_buf.
BitsOfBytes(dst) ==
    [ k \in 1..(8 * Len(dst)) |-> (dst[((k - 1) \div 8) + 1] \div Pow2((k - 1) % 8)) % 2 ]

AllBits(W) == BitsOfBytes(W.dst) \o W.bits

\* The writer W with put collecting from here on.
Traced(W) == [ W EXCEPT !.put = AllBits(W) ]

\* A table of 288 codes of 12 bits each, the longest the coders build.
LongestCodes == [ i \in 1..DEFL_MAX_HUFF_SYMBOLS_0 |-> << 12, 4095 >> ]

\* The capacities of pDst tried: the one fpng_encode_image_to_memory
\* passes, and one too small for most of the images.
TokCapacities(w, h, n) ==
    { FromLE(USub(EncOutBufSize(w, h, n), U32(PNG_HEADER_SIZE))), 48 }

\* pixel_deflate_dyn_3_rle and pixel_deflate_dyn_4_rle between the two
\* passes: the zlib header and the header of the dynamic block.  The
\* second pass then writes with the codes of the table built, or with
\* codes of the greatest length.
TokHeader ==
    /\ pc = "scanned"
    /\ \E dst_buf_size \in TokCapacities(img.w, img.h, img.num_chans), longest \in BOOLEAN :
        \E dh \in { defl_start_dynamic_block(
                        adjust_freq32(DEFL_MAX_HUFF_SYMBOLS_0,
                                      Put(enc.scan.lit_freq, 256, 1)),
                        Put(Zeros(DEFL_MAX_HUFF_SYMBOLS_1),
                            At(g_defl_small_dist_sym, img.num_chans - 1), 1),
                        PUT_BITS(PUT_BITS(PUT_BITS(WriterInit(0, 0, << >>), 120, 8), 1, 8),
                                 1, 1),
                        dst_buf_size) } :
            /\ enc' = [ ok |-> dh.W.ok, temp_buf |-> enc.temp_buf, buf_size |-> enc.buf_size,
                        scan |-> enc.scan, row_start |-> enc.row_start,
                        dst_buf_size |-> dst_buf_size, i |-> 0, one_pass |-> FALSE,
                        cs |-> IF longest THEN LongestCodes ELSE CodeTable(dh.huff_0),
                        W |-> Traced(dh.W), before |-> dh.W.dst ]
            /\ pc' = IF dh.W.ok THEN "codes" ELSE "emitted"
    /\ UNCHANGED << img, input, info, dec, chunks >>

\* One turn of the loop of the second pass.
TokEmit ==
    /\ pc = "codes"
    /\ ~enc.one_pass
    /\ enc.i < Len(enc.scan.codes)
    /\ \E W \in { PutCode(enc.W, At(enc.scan.codes, enc.i), enc.cs, enc.dst_buf_size) } :
        /\ enc' = [ enc EXCEPT !.W = W, !.i = enc.i + 1, !.ok = W.ok, !.before = enc.W.dst ]
        /\ pc' = IF W.ok THEN "codes" ELSE "emitted"
    /\ UNCHANGED << img, input, info, dec, chunks >>

\* pixel_deflate_dyn_3_rle_one_pass and pixel_deflate_dyn_4_rle_one_pass
\* before the first row: the prebuilt header.
TokOnePass ==
    /\ pc = "rows"
    /\ "FPNG_ENCODE_SLOWER" \notin img.flags
    /\ \E dst_buf_size \in TokCapacities(img.w, img.h, img.num_chans), longest \in BOOLEAN :
        \E hdr \in { IF img.num_chans = 3 THEN g_dyn_huff_3 ELSE g_dyn_huff_4 } :
            /\ enc' = [ ok |-> ~(dst_buf_size < Len(hdr)),
                        temp_buf |-> enc.temp_buf, buf_size |-> enc.buf_size,
                        scan |-> enc.scan, row_start |-> enc.row_start,
                        dst_buf_size |-> dst_buf_size, i |-> 0, one_pass |-> TRUE,
                        cs |-> IF longest THEN LongestCodes
                               ELSE IF img.num_chans = 3 THEN g_dyn_huff_3_codes
                               ELSE g_dyn_huff_4_codes,
                        W |-> IF dst_buf_size < Len(hdr)
                              THEN [ WriterInit(0, 0, << >>) EXCEPT !.ok = FALSE ]
                              ELSE Traced(IF img.num_chans = 3
                                          THEN WriterInit(DYN_HUFF_3_BITBUF,
                                                          DYN_HUFF_3_BITBUF_SIZE, hdr)
                                          ELSE WriterInit(DYN_HUFF_4_BITBUF,
                                                          DYN_HUFF_4_BITBUF_SIZE, hdr)),
                        before |-> << >> ]
            /\ pc' = IF dst_buf_size < Len(hdr) THEN "emitted" ELSE "codes"
    /\ UNCHANGED << img, input, info, dec, chunks >>

\* One turn of the loop over y of the one-pass coders; i is y and the
\* source offset follows from it.
TokOnePassRow ==
    /\ pc = "codes"
    /\ enc.one_pass
    /\ enc.i < img.h
    /\ \E r \in { OnePassRow(enc.temp_buf, img.num_chans, 1 + img.w * img.num_chans,
                              enc.cs, enc.dst_buf_size,
                              [ y |-> enc.i,
                                src_ofs |-> enc.i * (1 + img.w * img.num_chans),
                                W |-> enc.W ]) } :
        /\ enc' = [ enc EXCEPT !.W = r.W, !.i = enc.i + 1, !.ok = r.W.ok,
                               !.before = enc.W.dst ]
        /\ pc' = IF r.W.ok THEN "codes" ELSE "emitted"
    /\ UNCHANGED << img, input, info, dec, chunks >>

\* After the loop: the end of block code, the last bits and the Adler-32.
TokFinish ==
    /\ pc = "codes"
    /\ ~(enc.i < (IF enc.one_pass THEN img.h ELSE Len(enc.scan.codes)))
    /\ \E W \in { FinishBlock(enc.W, enc.cs,
                               SubSeq(enc.temp_buf, 1, (1 + img.w * img.num_chans) * img.h),
                               enc.dst_buf_size) } :
        /\ enc' = [ enc EXCEPT !.W = W, !.ok = W.ok, !.before = enc.W.dst ]
        /\ pc' = "emitted"
    /\ UNCHANGED << img, input, info, dec, chunks >>

TokNext == TokFilter \/ TokRow \/ TokHeader \/ TokEmit \/ TokOnePass \/ TokOnePassRow \/ TokFinish

SpecTok == TokInit /\ [][TokNext]_vars

\* ---------------------------------------------------------------------
\* The value fpng_encode_image_to_memory returns, from the sizes alone
\* ---------------------------------------------------------------------

\* The 32-bit sizes of temp_buf and out_buf are the sizes the rows need:
\* (bpl + 1) * h, that plus 7, and that plus PNG_HEADER_SIZE do not wrap.
EncSizesFit(w, h, num_chans) ==
    /\ Resize(EncFilteredLen(w, h, num_chans), 8) = EncFilteredLen64(w, h, num_chans)
    /\ ~ULt(UAdd(UAdd(U32(PNG_HEADER_SIZE), EncFilteredLen(w, h, num_chans)), U32(7)),
            EncFilteredLen(w, h, num_chans))

\* What the branch for defl_size = 0 returns: whether write_raw_block,
\* given the buffer resized for it, returns a size other than 0.
EncFallbackOk(w, h, num_chans) ==
    ~UIsZero(write_raw_block_size(
                 EncFilteredLen(w, h, num_chans),
                 USub(EncRawBufSize(EncFilteredLen(w, h, num_chans)), U32(PNG_HEADER_SIZE))))

\* The values fpng_encode_image_to_memory can return for images of these
\* dimensions: false for arguments it refuses; either value when a buffer
\* size wraps, the filter loop then writing past temp_buf; what the stored
\* blocks give when they are forced; and otherwise true when the coder's
\* output fits, or what the stored blocks give when it does not.
EncodeOutcomes(w, h, num_chans, flags) ==
    IF ~EncodeArgsValid(w, h, num_chans) THEN { FALSE }
    ELSE IF ~EncSizesFit(w, h, num_chans) THEN BOOLEAN
    ELSE IF "FPNG_FORCE_UNCOMPRESSED" \in flags THEN { EncFallbackOk(w, h, num_chans) }
    ELSE { TRUE, EncFallbackOk(w, h, num_chans) }

\* The widths, heights and channel counts tried.
DimWidths == { 0, 1, 2, 65536, 5592000, FPNG_MAX_SUPPORTED_DIM, FPNG_MAX_SUPPORTED_DIM + 1 }

DimHeights == { 0, 1, 256, FPNG_MAX_SUPPORTED_DIM, FPNG_MAX_SUPPORTED_DIM + 1 }

DimChans == { 2, 3, 4, 5 }

DimsInit ==
    /\ pc = "start"
    /\ img \in [ w : DimWidths, h : DimHeights, num_chans : DimChans, flags : FlagSets,
                 pixels : { << >> } ]
    /\ enc = NoEnc
    /\ input = [ from |-> "nobody", bytes |-> << >> ]
    /\ info = NoInfo
    /\ dec = NoDec
    /\ chunks = << >>

\* The client encodes some image of the dimensions.
DimsEncode ==
    /\ pc = "start"
    /\ \E ok \in EncodeOutcomes(img.w, img.h, img.num_chans, img.flags) :
          enc' = [ ok |-> ok, temp_buf |-> << >> ]
    /\ pc' = "sized"
    /\ UNCHANGED << img, input, info, dec, chunks >>

DimsNext == DimsEncode

SpecDims == DimsInit /\ [][DimsNext]_vars

\* The arguments the specification calls valid.
ArgsInRange ==
    /\ img.w >= 1 /\ img.w <= FPNG_MAX_SUPPORTED_DIM
    /\ img.h >= 1 /\ img.h <= FPNG_MAX_SUPPORTED_DIM
    /\ img.num_chans \in {3, 4}

\* C4 (as the specification states it; the code does not keep it):
\* fpng_encode_image_to_memory returns false exactly when width or height
\* is 0 or greater than 2^24 or the channel count is not 3 or 4, whatever
\* the flags.
C4_FalseOnlyForBadArgs == pc = "sized" => (enc.ok <=> ArgsInRange)

\* ---------------------------------------------------------------------
\* A client that puts a file together chunk by chunk
\* ---------------------------------------------------------------------

\* The image whose encoding gives the chunks of the files: 1x1, RGB, black.
BaseImage == [ w |-> 1, h |-> 1, num_chans |-> 3, flags |-> {}, pixels |-> << 0, 0, 0 >> ]

\* What the encoder returns for it.
BaseEnc ==
    fpng_encode_image_to_memory(BaseImage.pixels, BaseImage.w, BaseImage.h,
                                BaseImage.num_chans, BaseImage.flags)

\* A chunk: length, type, data and the CRC-32 of type and data.
Chunk(type, data) ==
    BE32(U32(Len(data))) \o type \o data
    \o BE32(fpng_crc32(U32(FPNG_CRC32_INIT), type \o data, 0, Len(type) + Len(data)))

TypeANC == << 116, 69, 88, 116 >>

TypePLTE == << 80, 76, 84, 69 >>

\* The type of a first chunk that is not IHDR.
TypeJHDR == << 74, 72, 68, 82 >>

\* The kinds of chunk a file is put together from.  The first three are
\* sound; each of the others has one defect.
SoundKinds == { "fdEC", "IDAT", "tEXt" }

DefectKinds == { "fdEC_magic_stale_crc", "fdEC_magic", "IDAT_crc", "IDAT_short",
                 "tEXt_crc", "PLTE", "PLTE_crc" }

\* The bytes of a chunk of the kind, out being the encoder's file for
\* BaseImage: its fdEC chunk is at offset 33 and its IDAT chunk at 50.
KindBytes(kind, out) ==
    CASE kind = "fdEC" -> SubSeq(out, 34, 50)
      [] kind = "fdEC_magic_stale_crc" -> AlterAt(SubSeq(out, 34, 50), 8)
      [] kind = "fdEC_magic" -> Chunk(TypeFDEC, AlterAt(SubSeq(out, 42, 46), 0))
      [] kind = "IDAT" -> SubSeq(out, 51, Len(out) - 12)
      [] kind = "IDAT_crc" -> AlterLast(SubSeq(out, 51, Len(out) - 12))
      [] kind = "IDAT_short" -> Chunk(TypeIDAT, << 120, 1, 0 >>)
      [] kind = "tEXt" -> Chunk(TypeANC, << 97, 0, 98 >>)
      [] kind = "tEXt_crc" -> AlterLast(Chunk(TypeANC, << 97, 0, 98 >>))
      [] kind = "PLTE" -> Chunk(TypePLTE, << 1, 2, 3 >>)
      [] kind = "PLTE_crc" -> AlterLast(Chunk(TypePLTE, << 1, 2, 3 >>))
      [] kind = "IEND" -> SubSeq(out, Len(out) - 11, Len(out))

\* The number of chunks after IHDR and before IEND.
MaxChunks == 3

\* The number of defects in the chunks so far; "IHDR_crc" and "JHDR" are
\* the defects of the header.
Defects(ch) ==
    Cardinality({ i \in 1..Len(ch) : ch[i] \in DefectKinds \cup { "IHDR_crc", "JHDR" } })

\* The client starts from the signature and the IHDR chunk of the
\* encoder's file, the IHDR CRC as written or altered, or the chunk under
\* the type JHDR with the CRC-32 of that.
EnvInit ==
    /\ pc = "build"
    /\ img = BaseImage
    /\ \E r \in { BaseEnc } :
          /\ enc = r
          /\ \/ input = [ from |-> "client", bytes |-> SubSeq(r.out_buf, 1, 33) ]
                /\ chunks = << "IHDR" >>
             \/ input = [ from |-> "client", bytes |-> AlterLast(SubSeq(r.out_buf, 1, 33)) ]
                /\ chunks = << "IHDR_crc" >>
             \/ input = [ from |-> "client",
                          bytes |-> s_png_sig \o Chunk(TypeJHDR, SubSeq(r.out_buf, 17, 29)) ]
                /\ chunks = << "JHDR" >>
    /\ info = NoInfo
    /\ dec = NoDec

\* The client appends a chunk; a file has one defect at most.
EnvAppend(kind) ==
    /\ pc = "build"
    /\ Len(chunks) < 1 + MaxChunks
    /\ kind \in DefectKinds => Defects(chunks) = 0
    /\ input' = [ from |-> "client", bytes |-> file \o KindBytes(kind, enc.out_buf) ]
    /\ chunks' = Append(chunks, kind)
    /\ UNCHANGED << pc, img, enc, info, dec >>

\* The client ends the file with the IEND chunk.
EnvClose ==
    /\ pc = "build"
    /\ input' = [ from |-> "client", bytes |-> file \o KindBytes("IEND", enc.out_buf) ]
    /\ chunks' = Append(chunks, "IEND")
    /\ pc' = "closed"
    /\ UNCHANGED << img, enc, info, dec >>

\* The length field of the IEND chunk, the last chunk of the file, is set
\* to 4: the chunk's data then ends where the file ends.
EnvStretch ==
    /\ pc = "closed"
    /\ input' = [ from |-> "client", bytes |-> [ file EXCEPT ![Len(file) - 8] = 4 ] ]
    /\ chunks' = Append(chunks, "stretched")
    /\ pc' = "stretched"
    /\ UNCHANGED << img, enc, info, dec >>

EnvGetInfo ==
    /\ pc \in { "closed", "stretched" }
    /\ \E past \in PastBytes : info' = fpng_get_info(file, past)
    /\ pc' = "probed"
    /\ UNCHANGED << img, enc, input, dec, chunks >>

EnvDecode(desired_channels) ==
    /\ pc = "probed"
    /\ \E past \in PastBytes :
          dec' = [ desired |-> desired_channels ]
                     @@ fpng_decode_memory(file, past, desired_channels)
    /\ pc' = "decoded"
    /\ UNCHANGED << img, enc, input, info, chunks >>

EnvNext ==
    \/ \E kind \in SoundKinds \cup DefectKinds : EnvAppend(kind)
    \/ EnvClose
    \/ EnvStretch
    \/ EnvGetInfo
    \/ \E desired_channels \in {3, 4} : EnvDecode(desired_channels)

SpecEnv == EnvInit /\ [][EnvNext]_vars

\* ---------------------------------------------------------------------
\* The reader of the dynamic block, one turn of its loops at a time
\* ---------------------------------------------------------------------

\* The images whose streams are read, the dimensions and channel counts
\* put into the header in place of the image's, and the offsets from the
\* end of the zlib stream at which a byte of it is altered (0: none).
PixDims == { << 2, 1 >>, << 3, 2 >>, << 16, 3 >> }

PixImages ==
    { [ w |-> d[1], h |-> d[2], num_chans |-> c,
        flags |-> IF c = 3 THEN {} ELSE { "FPNG_ENCODE_SLOWER" },
        pixels |-> RunsPixels(Stripes(d[1] * d[2], Min(p, d[1] * d[2]),
                                      ColourA(c), ColourB(c))) ] :
        d \in PixDims, c \in {3, 4}, p \in StripePeriods \cup {48} }

PixHeaderDims == { << 2, 1 >>, << 3, 2 >> }

PixDamage == { 0, 5, 6, 9, -1 }

\* The zlib stream with the byte k before its end altered; unaltered for
\* k = 0; with one more byte, 0, before its last four for k = -1.
Damage(zlib, k) ==
    IF k = 0 THEN zlib
    ELSE IF k = -1
    THEN SubSeq(zlib, 1, Len(zlib) - 4) \o << 0 >> \o SubSeq(zlib, Len(zlib) - 3, Len(zlib))
    ELSE AlterAt(zlib, Len(zlib) - k)

\* The chunk put before the IDAT chunk of an unaltered file, if any.
PixExtra == { "none", "tEXt", "tEXt_crc" }

\* The number of bits of the stream consumed so far: those read into
\* bit_buf less those still in it.
Pos(R) == 8 * R.src_ofs - Len(R.bits)

\* What the reader holds before it is started.
NoPix ==
    [ desired |-> 0, status |-> "none", src_chans |-> 0, dst_bpl |-> 0,
      rows |-> 0, idat_ofs |-> 0, idat_len |-> 0, T |-> PrepareFail(<< >>).T,
      y |-> 0, dst |-> << >>, turns |-> 0, before |-> 0,
      s |-> [ ok |-> FALSE, R |-> [ ok |-> FALSE, src_ofs |-> 0, bits |-> << >> ],
              cur |-> << >>, prev_delta |-> << >> ] ]

\* pSrc and src_len as fpng_decode_memory hands them on: the file from
\* the IDAT data to its end.
PixSrc == Slice(file, dec.idat_ofs + 8, Len(file) - (dec.idat_ofs + 8))

PixSrcLen == Len(file) - (dec.idat_ofs + 8)

PixInit ==
    /\ pc = "start"
    /\ img \in PixImages
    /\ enc = NoEnc
    /\ input = [ from |-> "nobody", bytes |-> << >> ]
    /\ info = NoInfo
    /\ dec = NoPix
    /\ chunks = << >>

\* The client encodes the image and makes a file of the zlib stream: the
\* header holds the image's dimensions and channel count or others, and
\* one byte of the stream may be altered.
PixBuild ==
    /\ pc = "start"
    /\ \E r \in { fpng_encode_image_to_memory(img.pixels, img.w, img.h,
                                              img.num_chans, img.flags) } :
          /\ r.ok
          /\ enc' = [ ok |-> r.ok, temp_buf |-> r.temp_buf ]
          /\ \E d \in PixHeaderDims \cup { << img.w, img.h >> }, c \in {3, 4}, k \in PixDamage,
                e \in PixExtra :
                LET zlib == SubSeq(r.out_buf, PNG_HEADER_SIZE + 1, Len(r.out_buf) - 16)
                    made == PngFile(d[1], d[2], c, Damage(zlib, k))
                IN /\ k < Len(zlib)
                   /\ (d # << img.w, img.h >> \/ c # img.num_chans) => k = 0
                   /\ (d # << img.w, img.h >> \/ c # img.num_chans \/ k # 0) => e = "none"
                   /\ input' = [ from |-> "client",
                                 bytes |-> IF e = "none" THEN made
                                           ELSE SubSeq(made, 1, PNG_HEADER_SIZE - 8)
                                                \o KindBytes(e, r.out_buf)
                                                \o SubSeq(made, PNG_HEADER_SIZE - 7,
                                                          Len(made)) ]
                   /\ chunks' = << d, c, k, e >>
    /\ pc' = "built"
    /\ UNCHANGED << img, info, dec >>

\* The start of fpng_pixel_zlib_decompress_3/4 up to the pixel loops: the
\* zlib header, the block header and prepare_dynamic_block.  stored tells
\* that the first block is a stored block.
PixBlockStart(pSrc, src_len, zlib_len, src_chans) ==
    LET fail == [ ok |-> FALSE, stored |-> FALSE ] @@ PrepareFail(ReaderInit(pSrc, 2))
    IN
    IF zlib_len < 7 THEN fail
    ELSE IF At(pSrc, 0) # 120 \/ At(pSrc, 1) # 1 THEN fail
    ELSE IF (At(pSrc, 2) \div 2) % 4 = 0 THEN [ fail EXCEPT !.stored = TRUE ]
    ELSE IF 2 + 4 > src_len THEN fail
    ELSE The({
      IF ~bfinal.R.ok THEN fail
      ELSE The({
        IF ~btype.R.ok THEN fail
        ELSE IF bfinal.b # 1 \/ btype.b # 2 THEN fail
        ELSE [ stored |-> FALSE ] @@ prepare_dynamic_block(pSrc, src_len, btype.R, src_chans) :
          btype \in { GET_BITS(bfinal.R, 2, pSrc, src_len) } }) :
        bfinal \in { GET_BITS(ReaderInit(pSrc, 2), 1, pSrc, src_len) } })

\* fpng_decode_memory up to the pixel loops.  A file the envelope reader
\* refuses, or whose block header is refused, ends the call; a stream of
\* stored blocks is read by fpng_pixel_zlib_raw_decompress at once.
PixBegin(desired_channels) ==
    /\ pc = "built"
    /\ \E past \in PastBytes :
       \E r \in { fpng_get_info_internal(file, past) } :
          LET pSrc == Slice(file, r.idat_ofs + 8, Len(file) - (r.idat_ofs + 8))
              src_len == Len(file) - (r.idat_ofs + 8)
              base == [ NoPix EXCEPT !.desired = desired_channels,
                                     !.src_chans = r.channels_in_file,
                                     !.dst_bpl = FromLE(r.width) * desired_channels,
                                     !.rows = FromLE(r.height),
                                     !.idat_ofs = r.idat_ofs, !.idat_len = r.idat_len ]
          IN
          IF r.status # "FPNG_DECODE_SUCCESS"
          THEN dec' = [ NoPix EXCEPT !.desired = desired_channels, !.status = r.status ]
               /\ pc' = "returned"
          ELSE \E blk \in { PixBlockStart(pSrc, src_len, r.idat_len, r.channels_in_file) } :
                 IF blk.stored
                 THEN \E d \in { fpng_pixel_zlib_raw_decompress(
                                     pSrc, src_len, r.idat_len, r.width, r.height,
                                     r.channels_in_file, desired_channels) } :
                        /\ dec' = [ base EXCEPT !.dst = d.dst,
                                                !.status = IF d.ok THEN "FPNG_DECODE_SUCCESS"
                                                           ELSE "FPNG_DECODE_NOT_FPNG" ]
                        /\ pc' = "returned"
                 ELSE IF ~blk.ok
                 THEN dec' = [ base EXCEPT !.status = "FPNG_DECODE_NOT_FPNG" ]
                      /\ pc' = "returned"
                 ELSE dec' = [ base EXCEPT !.T = blk.T, !.s.R = blk.R, !.s.ok = TRUE ]
                      /\ pc' = "rows"
    /\ UNCHANGED << img, enc, input, info, chunks >>

\* The head of the loop over the scanlines: the filter literal of
\* scanline y, which must be 0 for the first and 2 for the others.
PixFilter ==
    /\ pc = "rows"
    /\ dec.y < dec.rows
    /\ \E st \in { DecodeRowStart(dec.T, PixSrc, PixSrcLen, dec.src_chans, dec.y, dec.s.R) } :
          IF ~st.ok
          THEN dec' = [ dec EXCEPT !.status = "FPNG_DECODE_NOT_FPNG", !.s.ok = FALSE ]
               /\ pc' = "returned"
          ELSE dec' = [ dec EXCEPT !.s = st, !.turns = dec.turns + 1,
                                   !.before = Pos(dec.s.R) ]
               /\ pc' = "pixels"
    /\ UNCHANGED << img, enc, input, info, chunks >>

\* One turn of the pixel loop of the scanline; the full scanline is
\* added to the output.
PixStep ==
    /\ pc = "pixels"
    /\ \E st \in { DecodeStep(dec.T, PixSrc, PixSrcLen, dec.src_chans, dec.desired,
                              dec.dst_bpl,
                              IF dec.y = 0 THEN << >>
                              ELSE Slice(dec.dst, (dec.y - 1) * dec.dst_bpl, dec.dst_bpl),
                              dec.s) } :
          IF ~st.ok
          THEN dec' = [ dec EXCEPT !.status = "FPNG_DECODE_NOT_FPNG", !.s = st ]
               /\ pc' = "returned"
          ELSE IF Len(st.cur) < dec.dst_bpl
          THEN dec' = [ dec EXCEPT !.s = st, !.turns = dec.turns + 1,
                                   !.before = Pos(dec.s.R) ]
               /\ pc' = "pixels"
          ELSE dec' = [ dec EXCEPT !.s = [ st EXCEPT !.cur = << >> ],
                                   !.dst = dec.dst \o st.cur, !.y = dec.y + 1,
                                   !.turns = dec.turns + 1, !.before = Pos(dec.s.R) ]
               /\ pc' = "rows"
    /\ UNCHANGED << img, enc, input, info, chunks >>

\* After the last scanline: the end of the block.
PixEnd ==
    /\ pc = "rows"
    /\ ~(dec.y < dec.rows)
    /\ dec' = [ dec EXCEPT !.status = IF DecodeEnd(dec.T, dec.s.R, dec.idat_len)
                                      THEN "FPNG_DECODE_SUCCESS"
                                      ELSE "FPNG_DECODE_NOT_FPNG" ]
    /\ pc' = "returned"
    /\ UNCHANGED << img, enc, input, info, chunks >>

PixNext ==
    \/ PixBuild
    \/ \E desired_channels \in {3, 4} : PixBegin(desired_channels)
    \/ PixFilter
    \/ PixStep
    \/ PixEnd

SpecPix == PixInit /\ [][PixNext]_vars

\* ---------------------------------------------------------------------
\* Properties of the reader on files put together chunk by chunk
\* ---------------------------------------------------------------------

\* The file is whole: it ends with an IEND chunk as the encoder writes it.
Whole == chunks[Len(chunks)] = "IEND"

\* The number of chunks of the file whose kind is in S.
CountOf(S) == Cardinality({ i \in 1..Len(chunks) : chunks[i] \in S })

FdecKinds == { "fdEC", "fdEC_magic" }

IdatKinds == { "IDAT", "IDAT_crc", "IDAT_short" }

\* The file made of chunks of the kinds ks, the first being the header.
RECURSIVE FileOf(_, _)
FileOf(ks, out) ==
    IF ks = << >> THEN << >>
    ELSE (CASE Head(ks) = "IHDR" -> SubSeq(out, 1, 33)
            [] Head(ks) = "IHDR_crc" -> AlterLast(SubSeq(out, 1, 33))
            [] Head(ks) = "JHDR" -> s_png_sig \o Chunk(TypeJHDR, SubSeq(out, 17, 29))
            [] OTHER -> KindBytes(Head(ks), out))
         \o FileOf(Tail(ks), out)

NotText(kind) == kind # "tEXt"

\* fpng_decode_memory has returned, the file being as long as the shortest
\* file the reader takes for a PNG.
Decoded == pc = "decoded" /\ Len(file) >= MinImageSize

BothReturn(status) == info.status = status /\ dec.status = status

\* C5 (as the specification states it; the code does not keep it): a file
\* whose IDAT chunk's stored CRC-32 differs from the CRC-32 of its type and
\* payload is never decoded as Success.
C5_IdatCrcChecked ==
    (Decoded /\ CountOf({ "IDAT_crc" }) > 0) => dec.status # "FPNG_DECODE_SUCCESS"

\* The files C6 is about: signature, IHDR and every chunk CRC valid.
C6_Scope ==
    /\ Decoded
    /\ Whole
    /\ chunks[1] = "IHDR"
    /\ CountOf({ "fdEC_magic_stale_crc", "IDAT_crc", "tEXt_crc", "PLTE_crc" }) = 0

\* fdEC missing, more than once, invalid, not before IDAT, or two IDATs.
C6_Bad ==
    \/ CountOf(FdecKinds) # 1
    \/ CountOf({ "fdEC_magic" }) > 0
    \/ CountOf(IdatKinds) > 1
    \/ \E i, j \in 1..Len(chunks) :
          i < j /\ chunks[i] \in IdatKinds /\ chunks[j] \in FdecKinds

\* Exactly one valid fdEC precedes exactly one IDAT.
C6_Good ==
    /\ CountOf(FdecKinds) = 1
    /\ CountOf({ "fdEC" }) = 1
    /\ CountOf(IdatKinds) = 1
    /\ \E i, j \in 1..Len(chunks) :
          i < j /\ chunks[i] = "fdEC" /\ chunks[j] \in IdatKinds

\* The scan reaches, as the first IDAT and after one valid fdEC, an IDAT
\* chunk with fewer than 7 bytes.
C6_ShortFirst ==
    \E j \in 1..Len(chunks) :
       /\ chunks[j] = "IDAT_short"
       /\ \A i \in 1..(j - 1) : chunks[i] \in { "IHDR", "fdEC", "tEXt" }
       /\ Cardinality({ i \in 1..(j - 1) : chunks[i] = "fdEC" }) = 1

Reaches(S) ==
    \E j \in 2..Len(chunks) :
       /\ chunks[j] \in S
       /\ \A i \in 2..(j - 1) : chunks[i] \in { "fdEC", "tEXt" }
       /\ Cardinality({ i \in 2..(j - 1) : chunks[i] = "fdEC" }) <= 1

\* Ancillary chunks with a matching CRC-32 change nothing: the file
\* without them decodes to the same result.
C7_TextSkipped ==
    \A past \in PastBytes :
       Len(FileOf(SelectSeq(chunks, NotText), BaseEnc.out_buf)) >= MinImageSize
       => dec = [ desired |-> dec.desired ]
                    @@ fpng_decode_memory(FileOf(SelectSeq(chunks, NotText), BaseEnc.out_buf),
                                          past, dec.desired)

C7_Scope == Decoded /\ Whole /\ chunks[1] = "IHDR"

C8_Scope == Decoded /\ chunks = << "IHDR", "fdEC_magic_stale_crc", "IDAT", "IEND" >>

\* C8 as stated: changing only fdEC magic bytes of an encoder's file makes
\* fpng_get_info and fpng_decode_memory return FPNG_DECODE_NOT_FPNG.
C8_Original == C8_Scope => BothReturn("FPNG_DECODE_NOT_FPNG")

\* C8, amended: changing only fdEC magic bytes of an encoder's file, the
\* stored CRC-32 left as written, makes fpng_get_info and
\* fpng_decode_memory return FPNG_DECODE_FAILED_HEADER_CRC32.
C8_MagicChangedIsCrcError == C8_Scope => BothReturn("FPNG_DECODE_FAILED_HEADER_CRC32")

C8_Witness == C8_Scope /\ BothReturn("FPNG_DECODE_FAILED_HEADER_CRC32")

\* A chunk after IHDR that is not IDAT fails its CRC-32 test: its stored
\* CRC-32 was altered, or it is read from past the end of the file.
C9_LaterCrcDefect ==
    CountOf({ "fdEC_magic_stale_crc", "tEXt_crc", "PLTE_crc", "stretched" }) > 0

\* C9 as stated: an IHDR of length 13 with a wrong CRC-32 gives
\* FPNG_DECODE_FAILED_NOT_PNG, and FPNG_DECODE_FAILED_HEADER_CRC32 is
\* returned only when a later chunk that is not IDAT fails its CRC-32.
C9_Original ==
    Decoded => /\ chunks[1] = "IHDR_crc" => BothReturn("FPNG_DECODE_FAILED_NOT_PNG")
               /\ dec.status = "FPNG_DECODE_FAILED_HEADER_CRC32"
                     => (chunks[1] = "IHDR" /\ C9_LaterCrcDefect)

\* C9, amended: an IHDR of length 13 with a wrong CRC-32 gives
\* FPNG_DECODE_FAILED_HEADER_CRC32, and that status is returned only when
\* IHDR or a later chunk that is not IDAT fails its CRC-32.
C9_IhdrCrcError ==
    Decoded => /\ chunks[1] = "IHDR_crc" => BothReturn("FPNG_DECODE_FAILED_HEADER_CRC32")
               /\ dec.status = "FPNG_DECODE_FAILED_HEADER_CRC32"
                     => (chunks[1] = "IHDR_crc" \/ C9_LaterCrcDefect)

C9_Witness ==
    /\ Decoded
    /\ chunks = << "IHDR_crc", "fdEC", "IDAT", "IEND" >>
    /\ BothReturn("FPNG_DECODE_FAILED_HEADER_CRC32")
\* ---------------------------------------------------------------------
\* Properties of the reader, turn by turn
\* ---------------------------------------------------------------------

\* The values fpng_get_info and fpng_decode_memory return for a buffer.
Statuses ==
    { "FPNG_DECODE_SUCCESS", "FPNG_DECODE_NOT_FPNG", "FPNG_DECODE_INVALID_ARG",
      "FPNG_DECODE_FAILED_NOT_PNG", "FPNG_DECODE_FAILED_HEADER_CRC32",
      "FPNG_DECODE_FAILED_INVALID_DIMENSIONS", "FPNG_DECODE_FAILED_DIMENSIONS_TOO_LARGE",
      "FPNG_DECODE_FAILED_CHUNK_PARSING", "FPNG_DECODE_FAILED_INVALID_IDAT" }

\* Every chunk the scan went over starts where the one before it ended
\* and ends at least 12 bytes on; the first starts after IHDR.
ScanAdvances(sn) ==
    \A i \in 1..Len(sn) :
       /\ sn[i][2] >= sn[i][1] + 12
       /\ sn[i][1] = IF i = 1 THEN 33 ELSE sn[i - 1][2]

C16_WritesInside ==
    pc \in { "rows", "pixels", "returned" }
    => /\ Len(dec.s.cur) <= dec.dst_bpl
       /\ Len(dec.dst) + Len(dec.s.cur) <= dec.dst_bpl * dec.rows

\* The reader refused a run that would cross the end of the scanline: the
\* header holds a width smaller than that of the image the stream is of.
C16_Witness ==
    /\ pc = "returned" /\ dec.status = "FPNG_DECODE_NOT_FPNG"
    /\ dec.turns > 1 /\ dec.y < dec.rows
    /\ chunks[1][1] < img.w /\ chunks[3] = 0
    /\ EntryIsMatch(Lit(dec.T, dec.s.R))

\* The reader came to the end of the block: it filled the last scanline.
AtBlockEnd == pc = "returned" /\ dec.rows > 0 /\ dec.y = dec.rows

\* The symbol after the last pixel is the end of block, 256, and the
\* bytes of the IDAT data after the byte that holds its last bit are 4.
EndOfBlockThenAdler ==
    LET e == Lit(dec.T, dec.s.R)
        last_bit == Pos(dec.s.R) + EntryLen(e)
    IN /\ EntryLen(e) # 0
       /\ e % 512 = 256
       /\ dec.idat_len - ((last_bit + 7) \div 8) = 4

\* C26: after the last pixel of the last scanline the dynamic-block reader
\* reports success only if the next symbol is the end of block and, the
\* bits up to the byte boundary skipped, exactly 4 bytes of the IDAT data
\* are left; otherwise fpng_decode_memory returns FPNG_DECODE_NOT_FPNG.
C26_EndOfBlock ==
    AtBlockEnd => IF EndOfBlockThenAdler THEN dec.status = "FPNG_DECODE_SUCCESS"
                  ELSE dec.status = "FPNG_DECODE_NOT_FPNG"

\* The end of block follows the last pixel, but 5 bytes are left after it.
C26_Witness ==
    /\ AtBlockEnd /\ dec.status = "FPNG_DECODE_NOT_FPNG" /\ chunks[3] = -1
    /\ Lit(dec.T, dec.s.R) % 512 = 256


\* ---------------------------------------------------------------------
\* More properties of the reader on files put together chunk by chunk
\* ---------------------------------------------------------------------

\* C17 (as the specification states it; the code does not keep it): the
\* envelope reader reads only bytes of the buffer; for every chunk it goes
\* over, the stored CRC-32 it reads ends inside the buffer.
C17_ReadsInsideBuffer ==
    pc = "probed"
    => \A p \in PastBytes :
          LET sn == fpng_get_info_internal(file, p).seen
          IN \A i \in 1..Len(sn) : sn[i][2] <= Len(file)

\* C30 (as the specification states it; the code does not keep it):
\* fpng_get_info returns Success only for a file whose first chunk has the
\* type IHDR.
C30_FirstChunkIsIhdr ==
    (pc = "probed" /\ info.status = "FPNG_DECODE_SUCCESS") => Slice(file, 12, 4) = << 73, 72, 68, 82 >>



\* ---------------------------------------------------------------------
\* Properties of the first pass of the two-pass coders
\* ---------------------------------------------------------------------

\* The number of bytes of the scanline a code stands for.
TokLen(code) ==
    IF code[1] = 1 THEN 1 ELSE IF code[1] = 0 THEN Len(code) - 1 ELSE code[1] + 1

IsFilterLit(code) == code[1] = 1

IsPixelLit(code) == code[1] = 0

IsMatch(code) == code[1] > 1

\* The codes of the scanline parsed last and the offset of that scanline.
RowCodes == SubSeq(enc.scan.codes, enc.row_start + 1, Len(enc.scan.codes))

RowBase == (enc.scan.y - 1) * (1 + img.w * img.num_chans)

\* The offset in temp_buf of the bytes code i of the scanline stands for.
TokOfs(i) ==
    LET row == RowCodes
        f[k \in 0 .. Len(row)] == IF k = 0 THEN 0 ELSE f[k - 1] + TokLen(row[k])
    IN RowBase + f[i - 1]

RowParsed == pc \in { "rows", "scanned" } /\ enc.scan.y > 0

\* C18: the codes of a scanline are the filter byte as one literal, then a
\* literal pixel, then literal pixels and matches; every match is a
\* multiple of C bytes and at most 255 (C = 3) or 252 (C = 4) bytes long;
\* the lengths of the codes of a scanline add up to 1 + W * C.
C18_ScanlineTokens ==
    RowParsed =>
        LET row == RowCodes
            n == img.num_chans
        IN /\ Len(row) >= 2
           /\ row[1] = << 1, At(enc.temp_buf, RowBase) >>
           /\ IsPixelLit(row[2])
           /\ \A i \in 2 .. Len(row) :
                 /\ ~IsFilterLit(row[i])
                 /\ IsPixelLit(row[i]) =>
                       row[i] = << 0 >> \o Slice(enc.temp_buf, TokOfs(i), n)
                 /\ IsMatch(row[i]) =>
                       /\ TokLen(row[i]) % n = 0
                       /\ TokLen(row[i]) <= IF n = 3 THEN 255 ELSE 252
           /\ TokOfs(Len(row) + 1) - RowBase = 1 + img.w * n
           /\ enc.scan.src_ofs = RowBase + 1 + img.w * n

\* A scanline of 90 pixels of one colour for C = 4: a match of 252 bytes.
C18_Witness ==
    /\ RowParsed
    /\ img.w = 90
    /\ img.num_chans = 4
    /\ \E i \in 1 .. Len(RowCodes) : IsMatch(RowCodes[i]) /\ TokLen(RowCodes[i]) = 252

\* The pixel a match repeats: the one before its first byte.
Repeated(i) == Slice(enc.temp_buf, TokOfs(i) - img.num_chans, img.num_chans)

\* C19 as stated: the code before a match is a literal pixel, equal to the
\* pixel the match repeats, never the filter literal or another match.
C19_MatchAfterLiteral ==
    RowParsed =>
        \A i \in 1 .. Len(RowCodes) :
            IsMatch(RowCodes[i]) =>
                /\ i > 1
                /\ RowCodes[i - 1] = << 0 >> \o Repeated(i)

\* C19, amended: the code before a match is a literal pixel equal to the
\* pixel the match repeats, or a match of the greatest length (255 or 252
\* bytes) of that pixel; never the filter literal.
C19_MatchAfterLiteralOrCap ==
    RowParsed =>
        \A i \in 1 .. Len(RowCodes) :
            IsMatch(RowCodes[i]) =>
                /\ i > 2
                /\ \/ RowCodes[i - 1] = << 0 >> \o Repeated(i)
                   \/ /\ IsMatch(RowCodes[i - 1])
                      /\ TokLen(RowCodes[i - 1]) = (IF img.num_chans = 3 THEN 255 ELSE 252)
                      /\ Repeated(i - 1) = Repeated(i)
                /\ \E j \in 2 .. i - 1 :
                      /\ RowCodes[j] = << 0 >> \o Repeated(i)
                      /\ \A k \in j + 1 .. i - 1 : IsMatch(RowCodes[k])

\* A match that follows a match of 255 bytes.
C19_Witness ==
    /\ RowParsed
    /\ img.num_chans = 3
    /\ \E i \in 2 .. Len(RowCodes) :
          IsMatch(RowCodes[i]) /\ IsMatch(RowCodes[i - 1]) /\ TokLen(RowCodes[i - 1]) = 255

\* The bytes of a match are those C bytes before them: its distance is C.
AtDistance(i) ==
    \A j \in 0 .. TokLen(RowCodes[i]) - 1 :
        At(enc.temp_buf, TokOfs(i) + j) = At(enc.temp_buf, TokOfs(i) + j - img.num_chans)

\* C20 as stated: the length of a match is one of 6, 9, ..., 255 (C = 3) or
\* of 8, 12, ..., 252 (C = 4), and its distance is C.
C20_MatchLengths ==
    RowParsed =>
        \A i \in 1 .. Len(RowCodes) :
            IsMatch(RowCodes[i]) =>
                /\ TokLen(RowCodes[i]) \in
                      IF img.num_chans = 3 THEN { 3 * k : k \in 2 .. 85 }
                      ELSE { 4 * k : k \in 2 .. 63 }
                /\ AtDistance(i)

\* C20, amended: the length of a match is one of 3, 6, ..., 255 (C = 3) or
\* of 4, 8, ..., 252 (C = 4), and its distance is C.
C20_MatchLengthsFromOnePixel ==
    RowParsed =>
        \A i \in 1 .. Len(RowCodes) :
            IsMatch(RowCodes[i]) =>
                /\ TokLen(RowCodes[i]) \in
                      IF img.num_chans = 3 THEN { 3 * k : k \in 1 .. 85 }
                      ELSE { 4 * k : k \in 1 .. 63 }
                /\ AtDistance(i)

\* A match of one pixel and, in the same scanline, a longer one.
C20_Witness ==
    /\ RowParsed
    /\ \E i, j \in 1 .. Len(RowCodes) :
          /\ IsMatch(RowCodes[i]) /\ TokLen(RowCodes[i]) = img.num_chans
          /\ IsMatch(RowCodes[j]) /\ TokLen(RowCodes[j]) > 2 * img.num_chans

\* C29: every byte the first pass reads, all 4 bytes of each pixel load
\* among them, lies inside temp_buf, of ((W * C + 1) * H + 7) & ~7 bytes.
C29_LoadsInsideBuffer ==
    RowParsed => enc.scan.hi <= enc.buf_size


\* ---------------------------------------------------------------------
\* Properties of the tables of a dynamic block
\* ---------------------------------------------------------------------

\* The sum of the elements of a sequence of naturals.
RECURSIVE SumRange(_, _, _)
SumRange(a, lo, hi) ==
    IF lo > hi THEN 0
    ELSE IF lo = hi THEN a[lo]
    ELSE SumRange(a, lo, (lo + hi) \div 2) + SumRange(a, ((lo + hi) \div 2) + 1, hi)

SeqSum(a) == SumRange(a, 1, Len(a))

Used(count) == { i \in 1 .. Len(count) : count[i] # 0 }

\* The sum of 2^(cap - L) over the symbols with a code.
KraftSum(sizes, cap) ==
    SeqSum([ i \in 1 .. Len(sizes) |->
               IF sizes[i] = 0 \/ sizes[i] > cap THEN 0 ELSE Pow2(cap - sizes[i]) ])

\* No code is the beginning of another code: a code is written from its
\* lowest bit on, so the code of i begins the code of j when the low
\* sizes[i] bits of the latter are the former.
PrefixFree(t) ==
    \A i, j \in 1 .. Len(t.m_huff_codes) :
        ( /\ i # j
          /\ t.m_huff_code_sizes[i] # 0
          /\ t.m_huff_code_sizes[j] # 0
          /\ t.m_huff_code_sizes[i] <= t.m_huff_code_sizes[j] )
        => t.m_huff_codes[j] % Pow2(t.m_huff_code_sizes[i]) # t.m_huff_codes[i]

\* What C21 says of the table built from the counts.
TableSound(count, t, cap) ==
    /\ \A i \in 1 .. Len(count) :
          IF count[i] # 0 THEN t.m_huff_code_sizes[i] \in 1 .. cap
          ELSE t.m_huff_code_sizes[i] = 0
    /\ Cardinality(Used(count)) >= 2 => KraftSum(t.m_huff_code_sizes, cap) = Pow2(cap)
    /\ Cardinality(Used(count)) = 1 => \A i \in Used(count) : t.m_huff_code_sizes[i] = 1
    /\ PrefixFree(t)

TableBuilt == pc \in { "built", "packed", "read" }

\* C21 as stated: for any 16-bit frequency table every used symbol gets a
\* code size from 1 to the cap and every other symbol 0, with two or more
\* used symbols the Kraft sum is 2^cap (which is also what ends the loop
\* of defl_huffman_enforce_max_code_size), a single used symbol gets size
\* 1, and the codes are prefix-free.
C21_AnyTable == TableBuilt => TableSound(enc.count, enc.huff, img.cap)

\* C21, amended: the same for the tables whose counts add up to at most
\* 65535 + 287, as do all tables the encoder builds.
C21_TablesOfEncoder ==
    (TableBuilt /\ SeqSum(enc.count) <= UINT16_MAX + DEFL_MAX_HUFF_SYMBOLS_0 - 1)
        => TableSound(enc.count, enc.huff, img.cap)

\* A table whose tree is deeper than the cap, so that the sizes were
\* limited, some symbols getting the longest size.
C21_Witness ==
    /\ pc = "built"
    /\ SeqSum(enc.count) <= UINT16_MAX
    /\ \E i \in 1 .. Len(HuffDepths(enc.count, img.table_len)) :
          HuffDepths(enc.count, img.table_len)[i] > img.cap
    /\ \E i \in Used(enc.count) : enc.huff.m_huff_code_sizes[i] = img.cap

\* C22: adjust_freq32 gives every nonzero count a 16-bit count of at
\* least 1, every zero count 0, and 16-bit counts that add up to at most
\* 65535.
C22_SumFits ==
    (pc = "counted" /\ ~img.direct) =>
        /\ \A i \in 1 .. img.table_len :
              IF img.freq[i] # 0 THEN enc.count[i] \in 1 .. UINT16_MAX ELSE enc.count[i] = 0
        /\ SeqSum(enc.count) <= UINT16_MAX

\* The packed code sizes as codes: << sym >> for a code size, << sym,
\* extra >> for the codes 16, 17 and 18 with their extra bits.
PackedTokens(packed) ==
    Iterate(LAMBDA s : IF At(packed, s.i) >= 16
                       THEN [ i |-> s.i + 2,
                              toks |-> Append(s.toks, << At(packed, s.i), At(packed, s.i + 1) >>) ]
                       ELSE [ i |-> s.i + 1, toks |-> Append(s.toks, << At(packed, s.i) >>) ],
            LAMBDA s : ~(s.i < Len(packed)),
            [ i |-> 0, toks |-> << >> ], LoopFuel).toks

\* The loop of prepare_dynamic_block over the codes of the code sizes:
\* ok is FALSE where it returns false, k is the number of codes read.
ExpandPacked(toks, total_codes) ==
    Iterate(LAMBDA s :
              IF ~(s.k < Len(toks)) THEN [ s EXCEPT !.ok = FALSE ]
              ELSE LET sym == At(toks, s.k)[1]
                       cur_code == Len(s.code_sizes)
                   IN IF sym <= 15
                      THEN IF sym > FPNG_DECODER_TABLE_BITS THEN [ s EXCEPT !.ok = FALSE ]
                           ELSE [ s EXCEPT !.k = s.k + 1,
                                           !.code_sizes = Append(s.code_sizes, sym) ]
                      ELSE LET rep_len == At(toks, s.k)[2] + (IF sym = 18 THEN 11 ELSE 3)
                               rep_code_size == IF sym = 16 /\ cur_code > 0
                                                THEN At(s.code_sizes, cur_code - 1) ELSE 0
                           IN IF (sym = 16 /\ cur_code = 0) \/ cur_code + rep_len > total_codes
                              THEN [ s EXCEPT !.ok = FALSE ]
                              ELSE [ s EXCEPT !.k = s.k + 1,
                                              !.code_sizes = s.code_sizes
                                                             \o Repeat(rep_code_size, rep_len) ],
            LAMBDA s : ~s.ok \/ ~(Len(s.code_sizes) < total_codes),
            [ k |-> 0, code_sizes |-> << >>, ok |-> TRUE ], LoopFuel)

\* C23: the packing writes 16 only for 3 to 6 repeats and never first, 17
\* only for 3 to 10 zeros and 18 only for 11 to 138 zeros, and the loop of
\* prepare_dynamic_block makes of the packed codes the code sizes packed.
C23_PackingRoundTrip ==
    pc = "packed" =>
        \A toks \in { PackedTokens(enc.pk.packed) } :
            /\ \A k \in 1 .. Len(toks) :
                  /\ toks[k][1] \in 0 .. 18
                  /\ toks[k][1] = 16 => k > 1 /\ toks[k][2] + 3 \in 3 .. 6
                  /\ toks[k][1] = 17 => toks[k][2] + 3 \in 3 .. 10
                  /\ toks[k][1] = 18 => toks[k][2] + 11 \in 11 .. 138
            /\ \A ex \in { ExpandPacked(toks, Len(enc.to_pack)) } :
                  /\ ex.ok
                  /\ ex.k = Len(toks)
                  /\ ex.code_sizes = enc.to_pack

\* Code sizes packed with all of the codes 16, 17 and 18, one of them a
\* run of 138 zeros.
C23_Witness ==
    /\ pc = "packed"
    /\ \A sym \in { 16, 17, 18 } :
          \E k \in 1 .. Len(PackedTokens(enc.pk.packed)) :
              PackedTokens(enc.pk.packed)[k][1] = sym
    /\ \E k \in 1 .. Len(PackedTokens(enc.pk.packed)) :
          PackedTokens(enc.pk.packed)[k] = << 18, 127 >>


\* The distance table is the one the coders ask for: the symbol of
\* distance C alone, counted once.
CoderDistCounts ==
    enc.count_1 = Put(Zeros(DEFL_MAX_HUFF_SYMBOLS_1),
                      At(g_defl_small_dist_sym, img.num_chans - 1), 1)

\* The code sizes of the first num_dist_codes distance symbols are 0 but
\* for the last one, which is 1.
OneDistCode(sizes, num_dist_codes) ==
    \A i \in 1 .. DEFL_MAX_HUFF_SYMBOLS_1 :
        sizes[i] = IF i = num_dist_codes THEN 1 ELSE 0

\* The field HDIST of the header: the 5 bits after BFINAL, BTYPE and HLIT.
HeaderDistCodes(header) == ((FromLE(SubSeq(header, 1, 2)) \div 256) % 32) + 1

\* C24: a block header of the two-pass coders has C distance codes, only
\* the distance symbol C - 1 has a code, of one bit, and that code is 0;
\* the reader refuses a header whose number of distance codes is not the
\* channel count or whose distance code sizes are not these.
C24_OneDistanceCode ==
    /\ (pc \in { "packed", "read" } /\ CoderDistCounts) =>
          /\ LastUsed(enc.huff_1.m_huff_code_sizes, 30, 1) = img.num_chans
          /\ OneDistCode(enc.huff_1.m_huff_code_sizes, img.num_chans)
          /\ At(enc.huff_1.m_huff_codes, img.num_chans - 1) = 0
    /\ pc = "read" =>
          /\ CoderDistCounts => HeaderDistCodes(enc.header) = img.num_chans
          /\ ( \/ HeaderDistCodes(enc.header) # enc.read_as
               \/ ~OneDistCode(enc.huff_1.m_huff_code_sizes, enc.read_as) ) => ~enc.rd.ok

\* A header of the coder for 4 channels, taken by the reader of a file of
\* 4 channels.
C24_Witness ==
    /\ pc = "read"
    /\ CoderDistCounts
    /\ img.num_chans = 4
    /\ enc.read_as = 4
    /\ enc.rd.ok

\* The parts of an entry of the literal table.
EntrySym(e) == e % 512

EntryNextSym(e) == (e \div 65536) % 512

EntryNextLen(e) == e \div 33554432

\* prepare_dynamic_block returned true: the literal table is built.
TableRead == pc = "read" /\ enc.rd.ok

\* C27 as stated: an entry of the literal table with a chained length
\* holds two literals whose code sizes add up to at most 12.
C27_ChainedLiterals ==
    TableRead =>
        \A idx \in 0 .. FPNG_DECODER_TABLE_SIZE - 1 :
            \A e \in { LitTableEntry(enc.rd.T, idx) } :
                EntryNextLen(e) # 0 =>
                    /\ EntrySym(e) < 256
                    /\ EntryNextSym(e) < 256
                    /\ EntryLen(e) + EntryNextLen(e) <= FPNG_DECODER_TABLE_BITS

\* C27, amended: an entry with a chained length holds a literal and the
\* symbol, a literal or not, whose code follows the literal's in the
\* index; their code sizes add up to at most 12.
C27_ChainedAfterLiteral ==
    TableRead =>
        \A idx \in 0 .. FPNG_DECODER_TABLE_SIZE - 1 :
            \A e \in { LitTableEntry(enc.rd.T, idx) } :
                EntryNextLen(e) # 0 =>
                    /\ EntrySym(e) < 256
                    /\ EntryLen(e) # 0
                    /\ EntryLen(e) + EntryNextLen(e) <= FPNG_DECODER_TABLE_BITS
                    /\ \A n \in { TableEntry(enc.rd.T.used, idx \div Pow2(EntryLen(e))) } :
                          EntryNextSym(e) = EntrySym(n) /\ EntryNextLen(e) = EntryLen(n)

\* A table with an entry of two literals and an entry of a literal and
\* the end of block.
C27_Witness ==
    /\ TableRead
    /\ \E idx \in 0 .. FPNG_DECODER_TABLE_SIZE - 1 :
          /\ EntryNextLen(LitTableEntry(enc.rd.T, idx)) # 0
          /\ EntryNextSym(LitTableEntry(enc.rd.T, idx)) = 256
    /\ \E idx \in 0 .. FPNG_DECODER_TABLE_SIZE - 1 :
          /\ EntryNextLen(LitTableEntry(enc.rd.T, idx)) # 0
          /\ EntryNextSym(LitTableEntry(enc.rd.T, idx)) < 256


\* ---------------------------------------------------------------------
\* The bit buffer of the four coders
\* ---------------------------------------------------------------------

\* A coder is writing codes, or has returned.
Emitting == pc \in { "codes", "emitted" }

\* The bytes of pDst a coder that returned its size has written: the bits
\* put, zero bits up to the next byte, and the 4 bytes of the Adler-32.
Finished(W) ==
    /\ Len(W.dst) = ((Len(W.put) + 7) \div 8) + 4
    /\ \A K \in { BitsOfBytes(SubSeq(W.dst, 1, Len(W.dst) - 4)) } :
          /\ SubSeq(K, 1, Len(W.put)) = W.put
          /\ \A k \in (Len(W.put) + 1)..Len(K) : K[k] = 0

\* C25: in the four coders, with the codes of the table in use or codes
\* of 12 bits each, bit_buf never holds more than 64 bits after a
\* PUT_BITS, at most 7 bits stay in it after a PUT_BITS_FLUSH, the bytes
\* of pDst followed by the bits of bit_buf are the bits put, in order,
\* bytes once written do not change, and no byte is stored at or after
\* dst_buf_size: the coder returns 0 instead.
C25_BitBuffer ==
    Emitting =>
        /\ enc.W.peak <= BitBufBits
        /\ ~enc.W.over
        /\ enc.W.left <= 7
        /\ enc.W.hi <= enc.dst_buf_size
        /\ Len(enc.W.dst) <= enc.dst_buf_size
        /\ enc.ok = enc.W.ok
        /\ (enc.W.ok /\ enc.before # << >>
                => SubSeq(enc.W.dst, 1, Len(enc.before)) = enc.before)
        /\ (pc = "codes" => AllBits(enc.W) = enc.W.put /\ Len(enc.W.bits) <= 7)
        /\ (pc = "emitted" /\ enc.W.ok => Finished(enc.W))

\* A coder of 4 channels that returned its size after its bit buffer held
\* 55 bits, and 7 bits after a flush.
C25_Witness ==
    /\ pc = "emitted"
    /\ enc.W.ok
    /\ img.num_chans = 4
    /\ enc.W.peak = 55
    /\ enc.W.left = 7
    /\ Len(enc.W.dst) > 48

\* A coder that returned 0 because pDst was full.
EmitterFull ==
    /\ pc = "emitted"
    /\ ~enc.W.ok
    /\ enc.W.hi > 40

\* ---------------------------------------------------------------------
\* The stored blocks of write_raw_block
\* ---------------------------------------------------------------------

\* 6 + n + 5 * ceil(n / 65535), in 64 bits.
RawSizeStated(n) ==
    UAdd(UAdd(U64(6), Resize(n, 8)),
         UMulSmall(UDivSmall(UAdd(Resize(n, 8), U64(UINT16_MAX - 1)), UINT16_MAX), 5))

\* C28 (as the specification states it; the code does not keep it): for
\* every length n of the filtered rows, write_raw_block, given the buffer
\* the encoder resized for it, returns 6 + n + 5 * ceil(n / 65535).
C28_RawBlockSize ==
    (pc = "sized" /\ ArgsInRange /\ EncSizesFit(img.w, img.h, img.num_chans)) =>
        \A n \in { EncFilteredLen(img.w, img.h, img.num_chans) } :
            Resize(write_raw_block_size(n, USub(EncRawBufSize(n), U32(PNG_HEADER_SIZE))), 8)
                = RawSizeStated(n)

\* The same where the size stated fits 32 bits.
RawBlockSizeWithin32Bits ==
    (RawSizeStated(EncFilteredLen(img.w, img.h, img.num_chans))[5] = 0) => C28_RawBlockSize

\* The number of stored blocks of a source of n bytes.
RawBlockCount(n) == (n + UINT16_MAX - 1) \div UINT16_MAX

\* The bytes z are 78 01, the stored blocks of src, each of UINT16_MAX
\* bytes but the last, with the bit BFINAL in the last alone and the
\* length followed by its complement, and the Adler-32 of src.
StoredLayout(z, src) ==
    LET n == Len(src)
        k == RawBlockCount(n)
    IN /\ Len(z) = 6 + n + 5 * k
       /\ SubSeq(z, 1, 2) = << 120, 1 >>
       /\ \A j \in 0 .. (k - 1) :
             LET at == 2 + j * (UINT16_MAX + 5)
                 len == Min(UINT16_MAX, n - j * UINT16_MAX)
             IN /\ z[at + 1] = (IF j = k - 1 THEN 1 ELSE 0)
                /\ z[at + 2] + 256 * z[at + 3] = len
                /\ z[at + 4] + 256 * z[at + 5] = UINT16_MAX - len
                /\ len >= 1
                /\ SubSeq(z, at + 6, at + 5 + len) = SubSeq(src, j * UINT16_MAX + 1,
                                                             j * UINT16_MAX + len)
       /\ SubSeq(z, Len(z) - 3, Len(z))
             = AdlerBE(fpng_adler32(<< FPNG_ADLER32_INIT, 0 >>, src, 0, n))

\* The file of an image encoded with FPNG_FORCE_UNCOMPRESSED holds the
\* stored blocks of its filtered rows.
RawBlockLayout ==
    (pc = "encoded" /\ enc.ok /\ "FPNG_FORCE_UNCOMPRESSED" \in img.flags) =>
        StoredLayout(SubSeq(file, PNG_HEADER_SIZE + 1, Len(file) - 16), enc.temp_buf)

\* A file of more than one stored block.
RawBlockLayoutSeen ==
    /\ pc = "encoded"
    /\ enc.ok
    /\ "FPNG_FORCE_UNCOMPRESSED" \in img.flags
    /\ RawBlockCount(Len(enc.temp_buf)) = 4
====
